---------------------------- MODULE Spec2Model ----------------------------
(***************************************************************************)
(* A state-machine model of the basilisk simulation core: the tile grid,   *)
(* the body chain and its propagation (Entity.move / Entity.snake), the    *)
(* action resolver (actions.py), the status effects, the glyph-keyed       *)
(* identification table, the turn scheduler (EventHandler.handle_action,   *)
(* Engine.handle_enemy_turns) and the time reversal (Engine.turn_back_time)*)
(***************************************************************************)
EXTENDS Integers, Sequences, FiniteSets, TLC

(***************************************************************************)
(* Bounds of the model.                                                    *)
(***************************************************************************)
MapW == 3
MapH == 3
NumFloorItems == 2
NumEnemies == 2
MaxTurn == 4
MaxMind == 2
MaxStatusOps == 4
MaxActs == 5
MaxFloor == 2
MaxLost == 1
MaxSpawned == 2
MaxForesight == 11
\* Radii scaled down to the size of the modelled grid (8, 3 and 3 in the code).
FovRadius == 2
FireballRadius == 1
EntanglingRadius == 1

(***************************************************************************)
(* Program constants.                                                      *)
(***************************************************************************)
MaxSegments == 26
TimeReverseTurns == 5
DefaultStrength == 10
DefaultDuration == 10
ShortStrength == 3
PetrifEyesDuration == 4
FreeSpitDuration == 4
PetrifyDuration == 3
StatBoostDuration == 10
MeleeDamage == 1
FireballDamage == 12

(***************************************************************************)
(* Geometry.                                                               *)
(***************************************************************************)
Pos == (0 .. MapW - 1) \X (0 .. MapH - 1)

\* The eight steps a move key can produce.
DIRECTIONS ==
  { <<0, -1>>, <<0, 1>>, <<-1, 0>>, <<1, 0>>,
    <<-1, -1>>, <<-1, 1>>, <<1, -1>>, <<1, 1>> }

Abs(n) == IF n < 0 THEN -n ELSE n

Max2(a, b) == IF a > b THEN a ELSE b

Plus(p, d) == <<p[1] + d[1], p[2] + d[2]>>

Minus(p, q) == <<p[1] - q[1], p[2] - q[2]>>

\* Chebyshev distance: two tiles are adjacent when one move key joins them.
Cheb(p, q) == Max2(Abs(p[1] - q[1]), Abs(p[2] - q[2]))

Adjacent(p, q) == Cheb(p, q) = 1

\* Entity.distance(x, y) <= r, on the squares.
WithinRadius(p, q, r) ==
  (p[1] - q[1]) * (p[1] - q[1]) + (p[2] - q[2]) * (p[2] - q[2]) <= r * r

ItemIds == 1 .. (NumFloorItems + NumEnemies)

EnemyIds == 1 .. NumEnemies

\* The item an enemy leaves behind when it dies.
CorpseId(e) == NumFloorItems + e

\* Consonant glyphs carried by the item factories, and the vowels of 'v' items.
Consonants == {"b", "t"}

Vowels == {"a"}

VARIABLES
  world,          \* engine.game_map and engine.player
  item_factories, \* glyph -> _identified of the factory carrying that glyph
  turn_count,     \* engine.turn_count
  snapshots,      \* turn number -> stored world (snapshot_<n>.sav)
  just_turned_back_time,
  handler,        \* the active input handler
  outcome,        \* what the last operation did
  opcount,        \* operations performed (bounds the run)
  replay,         \* the inputs played so far and the replay after a rewind
  forecast,       \* engine.word_mode and the intent each enemy's ai holds
  enemy_phase     \* what the latest handle_enemy_turns met

vars == <<world, item_factories, turn_count, snapshots,
          just_turned_back_time, handler, outcome, opcount, replay, forecast,
          enemy_phase>>

(***************************************************************************)
(* The map queries of GameMap.                                             *)
(***************************************************************************)
in_bounds(p) == 0 <= p[1] /\ p[1] < MapW /\ 0 <= p[2] /\ p[2] < MapH

\* tiles["walkable"]
TileWalkable(kind) == kind \in {"floor", "stairs"}

\* The entities with blocks_movement at a tile: the player, the living
\* enemies on the map and the solid items on the map.
BlockersAt(w, p) ==
  (IF w.head = p THEN {<<"player", 0>>} ELSE {})
  \cup { <<"enemy", e>> : e \in { e \in EnemyIds : w.enemy[e].on_map /\ w.enemy[e].xy = p } }
  \cup { <<"item", i>> :
           i \in { i \in DOMAIN w.item : w.item[i].on_map /\ w.item[i].solid /\ w.item[i].xy = p } }

get_blocking_entity_at_location(w, p) == BlockersAt(w, p) # {}

tile_is_walkable(w, p) ==
  /\ in_bounds(p)
  /\ TileWalkable(w.tiles[p])
  /\ ~get_blocking_entity_at_location(w, p)

\* game_map.items at a tile (chain items are entities of the map too).
ItemsAt(w, p) == { i \in DOMAIN w.item : w.item[i].on_map /\ w.item[i].xy = p }

\* get_actor_at_location for the enemies: living actors on the map.
EnemiesAt(w, p) == { e \in EnemyIds : w.enemy[e].on_map /\ w.enemy[e].xy = p }


(***************************************************************************)
(* Entity.move and Entity.snake: the body-chain propagation.               *)
(***************************************************************************)
\* Item.solidify
solidify(w, i) == [w EXCEPT !.item[i].solid = TRUE]

\* The test of Entity.snake: is there a blocking entity on the item's tile.
SnakeBlocked(w, i) == get_blocking_entity_at_location(w, w.item[i].xy)

\* Where item.move(*goto) puts a segment whose goto leads to the footprint.
SegmentGotoStay(footprint, xy) == xy

SegmentGoto(footprint, xy) == Plus(xy, Minus(footprint, xy))

\* The loop of Entity.snake from chain index k (1-based) on.
RECURSIVE SnakeLoop(_, _, _)
SnakeLoop(w, footprint, k) ==
  IF k > Len(w.chain) THEN w
  ELSE LET i == w.chain[k]
           it == w.item[i]
       IN IF ~it.solid
          THEN IF SnakeBlocked(w, i) THEN w ELSE solidify(w, i)
          ELSE SnakeLoop([w EXCEPT !.item[i].xy = SegmentGoto(footprint, it.xy)],
                         it.xy, k + 1)

\* Entity.snake(footprint, start_at): start_at counts from 0.
snake(w, footprint, start_at) == SnakeLoop(w, footprint, start_at + 1)

\* Entity.move for the player: the head steps, the chain follows.
move_player(w, d) == snake([w EXCEPT !.head = Plus(w.head, d)], w.head, 0)

\* Entity.move for an enemy.
move_enemy(w, e, d) == [w EXCEPT !.enemy[e].xy = Plus(w.enemy[e].xy, d)]

(***************************************************************************)
(* PickupAction.                                                           *)
(***************************************************************************)
\* The orders in which a set can be iterated.
Orders(S) ==
  { s \in [1 .. Cardinality(S) -> S] : \A a, b \in 1 .. Cardinality(S) : a # b => s[a] # s[b] }

PrependItem(items, i) == <<i>> \o items

\* inventory.items.append(item)
AppendItem(items, i) == Append(items, i)

\* The loop of PickupAction.perform over game_map.items, taken in the order ord.
RECURSIVE PickupLoop(_, _, _)
PickupLoop(w, ord, k) ==
  IF k > Len(ord) THEN w
  ELSE LET i == ord[k] IN
       IF w.item[i].on_map /\ w.item[i].xy = w.head /\ Len(w.chain) < MaxSegments
       THEN PickupLoop([w EXCEPT !.chain = AppendItem(w.chain, i)], ord, k + 1)
       ELSE PickupLoop(w, ord, k + 1)

PickupAction(w, ord) == PickupLoop(w, ord, 1)

(***************************************************************************)
(* Actor.constrict, Actor.die, Actor.corpse, Actor.take_damage.            *)
(***************************************************************************)
\* Actor.die for the player.
die_player(w) == [w EXCEPT !.alive = FALSE]

\* Actor.die for an enemy: it leaves the entity set and a copy of a random
\* item factory (glyph g, carrying the factory's _identified) lies where it stood.
die_enemy(w, e, g, tbl) ==
  [w EXCEPT !.enemy[e].on_map = FALSE,
            !.item[CorpseId(e)] =
               [xy |-> w.enemy[e].xy, solid |-> FALSE, char |-> g,
                item_type |-> "c", on_map |-> TRUE, ident |-> tbl[g]]]

constrict(w, e, g, tbl) ==
  IF w.enemy[e].ai = "constricted" THEN w
  ELSE LET w1 == [w EXCEPT !.enemy[e].ai = "constricted"]
           char_num == w.enemy[e].char - 1
       IN IF char_num < 0 THEN die_enemy(w1, e, g, tbl)
          ELSE [w1 EXCEPT !.enemy[e].char = char_num]

\* get_adjacent_actors of the player's head.
AdjacentEnemies(w) ==
  { e \in EnemyIds : w.enemy[e].on_map /\ \E d \in DIRECTIONS : w.enemy[e].xy = Plus(w.head, d) }

RECURSIVE ConstrictAll(_, _, _, _)
ConstrictAll(w, es, cg, tbl) ==
  IF es = {} THEN w
  ELSE LET e == CHOOSE x \in es : \A y \in es : x <= y
       IN ConstrictAll(constrict(w, e, cg[e], tbl), es \ {e}, cg, tbl)

(***************************************************************************)
(* MovementAction.perform.                                                 *)
(***************************************************************************)
\* A trapped check that forgets the stairs.
TrappedOnStairsToo(w) == \A d \in DIRECTIONS : ~tile_is_walkable(w, Plus(w.head, d))

\* "Make sure player can move, otherwise die"
Trapped(w) ==
  /\ \A d \in DIRECTIONS : ~tile_is_walkable(w, Plus(w.head, d))
  /\ w.head # w.downstairs

TrappedCheck(w) == IF Trapped(w) THEN die_player(w) ELSE w

MovementDestFree(w, dest) == in_bounds(dest)

\* The guard of MovementAction.perform: anything else raises Impossible.
MovementAllowed(w, dest) == tile_is_walkable(w, dest)

\* The player's MovementAction after the guard: move, pick up, constrict, trapped check.
MovementPlayer(w, d, ord, cg, tbl) ==
  LET w1 == move_player(w, d)
      w2 == IF ItemsAt(w1, w1.head) # {} THEN PickupAction(w1, ord) ELSE w1
      w3 == ConstrictAll(w2, AdjacentEnemies(w2), cg, tbl)
  IN TrappedCheck(w3)

\* An enemy's MovementAction after the guard.
MovementEnemy(w, e, d) == TrappedCheck(move_enemy(w, e, d))

(***************************************************************************)
(* The floor the runs start on: a room with one wall tile, the stairs in   *)
(* a corner, items lying in a row and the first enemy in the far corner;    *)
(* the other enemies are not on this floor.                                *)
(***************************************************************************)
WallAt == { <<1, 1>> }

DownstairsAt == <<0, MapH - 1>>

Tiles0 ==
  [p \in Pos |-> IF p \in WallAt THEN "wall"
                 ELSE IF p = DownstairsAt THEN "stairs" ELSE "floor"]

ItemStart(i) == <<i % MapW, (i \div MapW) % MapH>>

ItemChar(i) == IF i % 3 = 1 THEN "b" ELSE IF i % 3 = 2 THEN "t" ELSE "a"

ItemType(i) == IF ItemChar(i) \in Vowels THEN "v" ELSE "c"

EnemyStart(e) == <<(MapW - 1) - ((e - 1) % MapW), MapH - 1>>

EnemyChar(e) == (e - 1) % 2

Item0(i) ==
  IF i <= NumFloorItems
  THEN [xy |-> ItemStart(i), solid |-> FALSE, char |-> ItemChar(i),
        item_type |-> ItemType(i), on_map |-> TRUE, ident |-> FALSE]
  ELSE [xy |-> <<0, 0>>, solid |-> FALSE, char |-> "b",
        item_type |-> "c", on_map |-> FALSE, ident |-> FALSE]

Enemy0(e) ==
  [xy |-> EnemyStart(e), char |-> EnemyChar(e), base_char |-> EnemyChar(e),
   ai |-> "hostile", on_map |-> e = 1, statuses |-> <<>>]

PlayerStart == <<0, 0>>

\* Engine.fov: the tiles compute_fov reports from the head, taken as the disc
\* of the field-of-view radius.
fov(head) == { p \in Pos : WithinRadius(p, head, FovRadius) }

World0 ==
  [head |-> PlayerStart, alive |-> TRUE, chain |-> <<>>,
   item |-> [i \in ItemIds |-> Item0(i)],
   enemy |-> [e \in EnemyIds |-> Enemy0(e)],
   tiles |-> Tiles0, downstairs |-> DownstairsAt,
   statuses |-> <<>>, MIND |-> 0,
   visible |-> fov(PlayerStart), explored |-> fov(PlayerStart), mapped |-> {},
   floor |-> 1]

Factories0 == [g \in Consonants |-> FALSE]

NoOutcome == [op |-> "none", actor |-> <<"none", 0>>, raised |-> FALSE, arg |-> ""]

NoReplay ==
  [mode |-> "play", log |-> <<>>, todo |-> <<>>, pre |-> World0, turner |-> 0,
   restored |-> World0, phases |-> 0, T |-> 0, K |-> 0]

\* Outside word mode, every enemy holding a wait.
NoForecast ==
  [word_mode |-> FALSE, before |-> FALSE,
   intent |-> [e \in EnemyIds |-> <<0, 0>>],
   done |-> [e \in EnemyIds |-> <<0, 0>>]]

\* No enemy has had its turn.
NoTurns == [reached |-> {}, raised |-> {}, performed |-> {}]

\* No enemy phase has run.
NoPhase ==
  [enemies |-> {}, reached |-> {}, raised |-> {}, performed |-> {}, before |-> World0,
   after |-> World0, early |-> FALSE]

InitCommon ==
  /\ item_factories = Factories0
  /\ turn_count = 0
  /\ snapshots = <<>>
  /\ just_turned_back_time = FALSE
  /\ handler = "main"
  /\ outcome = NoOutcome
  /\ opcount = 0
  /\ replay = NoReplay
  /\ forecast = NoForecast
  /\ enemy_phase = NoPhase

(***************************************************************************)
(* The movement specification: the player and the enemies perform          *)
(* MovementActions in any interleaving.                                    *)
(***************************************************************************)
InitMove == world = World0 /\ InitCommon

PlayerMove ==
  \E d \in DIRECTIONS :
    /\ world.alive
    /\ LET dest == Plus(world.head, d) IN
       IF ~MovementAllowed(world, dest)
       THEN /\ outcome' = [op |-> "move", actor |-> <<"player", 0>>, raised |-> TRUE, arg |-> ""]
            /\ UNCHANGED world
       ELSE LET w1 == move_player(world, d) IN
            \E ord \in Orders(ItemsAt(w1, w1.head)), cg \in [EnemyIds -> Consonants] :
              /\ world' = MovementPlayer(world, d, ord, cg, item_factories)
              /\ outcome' = [op |-> "move", actor |-> <<"player", 0>>, raised |-> FALSE, arg |-> ""]
    /\ UNCHANGED <<item_factories, turn_count, snapshots, just_turned_back_time,
                   handler, opcount, replay, forecast, enemy_phase>>

EnemyMove ==
  \E e \in EnemyIds, d \in DIRECTIONS :
    /\ world.alive
    /\ world.enemy[e].on_map
    /\ world.enemy[e].ai = "hostile"
    /\ LET dest == Plus(world.enemy[e].xy, d) IN
       IF ~MovementAllowed(world, dest)
       THEN /\ outcome' = [op |-> "move", actor |-> <<"enemy", e>>, raised |-> TRUE, arg |-> ""]
            /\ UNCHANGED world
       ELSE /\ world' = MovementEnemy(world, e, d)
            /\ outcome' = [op |-> "move", actor |-> <<"enemy", e>>, raised |-> FALSE, arg |-> ""]
    /\ UNCHANGED <<item_factories, turn_count, snapshots, just_turned_back_time,
                   handler, opcount, replay, forecast, enemy_phase>>

NextMove == PlayerMove \/ EnemyMove

SpecMove == InitMove /\ [][NextMove]_vars

(***************************************************************************)
(* Claims about movement and the body chain.                               *)
(***************************************************************************)
\* Where an actor stands.
ActorXY(w, a) == IF a[1] = "player" THEN w.head ELSE w.enemy[a[2]].xy

\* Every position an entity of the map has.
Positions(w) ==
  [head |-> w.head,
   items |-> [i \in ItemIds |-> w.item[i].xy],
   enemies |-> [e \in EnemyIds |-> w.enemy[e].xy]]

\* C1: every MovementAction, by any actor in any direction, either ends with
\* the actor on a destination tile that was in bounds, walkable and free of
\* blocking entities, or raises Impossible and changes no entity's position.
C1_MoveValidOrImpossible ==
  [][outcome'.op = "move" =>
       LET a == outcome'.actor
           dest == ActorXY(world', a)
       IN IF outcome'.raised
          THEN Positions(world') = Positions(world)
          ELSE /\ Adjacent(ActorXY(world, a), dest)
               /\ 0 <= dest[1] /\ dest[1] < MapW /\ 0 <= dest[2] /\ dest[2] < MapH
               /\ world.tiles[dest] \in {"floor", "stairs"}
               /\ BlockersAt(world, dest) = {}]_vars

\* Both outcomes of C1 occur: a move that succeeded and a move that was refused.
C1_Witness ==
  /\ outcome.op = "move" /\ ~outcome.raised
  /\ outcome.actor = <<"enemy", 1>>
  /\ Len(world.chain) >= 2

\* The solid segments of the chain, in chain order.
SolidChain(w) == SelectSeq(w.chain, LAMBDA i : w.item[i].solid)

\* C2: the head followed by the solid segments in chain order is a connected
\* path: each solid segment is adjacent to the element just ahead of it.
C2_ChainConnected ==
  LET s == SolidChain(world) IN
  \A k \in 1 .. Len(s) :
    Adjacent(world.item[s[k]].xy,
             IF k = 1 THEN world.head ELSE world.item[s[k - 1]].xy)

\* A chain of three solid segments behind a head that has moved on.
C2_Witness ==
  /\ Len(SolidChain(world)) >= 3
  /\ outcome.op = "move" /\ outcome.actor[1] = "player" /\ ~outcome.raised

\* C3: a player move keeps the chain as a prefix of the new chain; what is
\* appended are items that lay on the destination tile, each once, none of
\* them already held.
C3_ChainOrderKept ==
  [][(outcome'.op = "move" /\ outcome'.actor[1] = "player") =>
       LET old == world.chain
           new == world'.chain
           dest == world'.head
       IN /\ Len(new) >= Len(old)
          /\ SubSeq(new, 1, Len(old)) = old
          /\ \A k \in (Len(old) + 1) .. Len(new) :
               /\ new[k] \in ItemsAt(world, dest)
               /\ \A j \in 1 .. Len(new) : j # k => new[j] # new[k]]_vars

\* A move that picked an item up behind a chain that already had segments.
C3_Witness ==
  /\ outcome.op = "move" /\ outcome.actor[1] = "player" /\ ~outcome.raised
  /\ Len(world.chain) >= 2
  /\ ~world.item[world.chain[Len(world.chain)]].solid
  /\ world.item[world.chain[Len(world.chain)]].xy = world.head

(***************************************************************************)
(* Identification: Item.identified reads and writes the factory that       *)
(* carries the item's glyph; a vowel ('v') item always reads identified.   *)
(***************************************************************************)
Glyphs == Consonants \cup Vowels

GlyphType(g) == IF g \in Vowels THEN "v" ELSE "c"

\* Reading the flag the instance itself carries (the copy made at spawn).
IdentifiedOfInstance(w, tbl, i) ==
  IF w.item[i].item_type = "v" THEN TRUE ELSE w.item[i].ident

\* Item.identified (getter)
identified(w, tbl, i) ==
  IF w.item[i].item_type = "v" THEN TRUE ELSE tbl[w.item[i].char]

\* Item.identified (setter): the new table of factories.
set_identified(w, tbl, i, val) ==
  IF w.item[i].item_type = "v" THEN tbl
  ELSE [tbl EXCEPT ![w.item[i].char] = val]

\* Entity.spawn of the factory (or the vowel prototype) with glyph g: a deep
\* copy, which carries the factory's _identified as it is at that moment.
spawn(w, tbl, i, g, p) ==
  [w EXCEPT !.item[i] =
      [xy |-> p, solid |-> FALSE, char |-> g, item_type |-> GlyphType(g),
       on_map |-> TRUE, ident |-> IF g \in Consonants THEN tbl[g] ELSE FALSE]]

InitIdent ==
  /\ \E cs \in [1 .. NumFloorItems -> Glyphs] :
       world = [World0 EXCEPT
                  !.item = [i \in ItemIds |->
                              IF i <= NumFloorItems
                              THEN [World0.item[i] EXCEPT !.char = cs[i],
                                                          !.item_type = GlyphType(cs[i])]
                              ELSE World0.item[i]]]
  /\ InitCommon

\* Consumable.identify / IdentifyingConsumable.activate: item.identified = True
IdentifyItem ==
  \E i \in ItemIds :
    /\ world.item[i].on_map
    /\ item_factories' = set_identified(world, item_factories, i, TRUE)
    /\ outcome' = [op |-> "identify", actor |-> <<"item", i>>, raised |-> FALSE, arg |-> ""]
    /\ UNCHANGED <<world, turn_count, snapshots, just_turned_back_time, handler, opcount, replay,
                   forecast, enemy_phase>>

\* A new item appears on the floor (Actor.corpse, ChangelingConsumable, floor
\* population): a spawn of the factory carrying glyph g.
SpawnItem ==
  \E i \in ItemIds, g \in Glyphs, p \in Pos :
    /\ ~world.item[i].on_map
    /\ world' = spawn(world, item_factories, i, g, p)
    /\ outcome' = [op |-> "spawn", actor |-> <<"item", i>>, raised |-> FALSE, arg |-> ""]
    /\ UNCHANGED <<item_factories, turn_count, snapshots, just_turned_back_time,
                   handler, opcount, replay, forecast, enemy_phase>>

NextIdent == IdentifyItem \/ SpawnItem

SpecIdent == InitIdent /\ [][NextIdent]_vars

OnMapWithGlyph(w, g) == { i \in ItemIds : w.item[i].on_map /\ w.item[i].char = g }

\* C4: identification is keyed by glyph.  Once some item with glyph k reads
\* identified, every item with glyph k reads identified after every later
\* step, the items spawned by that step included; an identification changes
\* the reading of no item with another glyph; items with the same glyph
\* always read alike.
C4_GlyphScoped ==
  [][/\ \A k \in Glyphs :
          (\E i \in OnMapWithGlyph(world, k) : identified(world, item_factories, i))
            => \A j \in OnMapWithGlyph(world', k) : identified(world', item_factories', j)
     /\ \A i, j \in ItemIds :
          (world'.item[i].on_map /\ world'.item[j].on_map
             /\ world'.item[i].char = world'.item[j].char)
            => identified(world', item_factories', i) = identified(world', item_factories', j)
     /\ (outcome'.op = "identify") =>
          \A j \in ItemIds :
            (world.item[j].on_map /\ world.item[j].char # world.item[outcome'.actor[2]].char)
              => identified(world', item_factories', j) = identified(world, item_factories, j)
    ]_vars

\* An item spawned after its glyph was identified through another instance.
C4_Witness ==
  /\ outcome.op = "spawn"
  /\ LET i == outcome.actor[2] IN
       /\ world.item[i].item_type = "c"
       /\ identified(world, item_factories, i)
       /\ \E j \in ItemIds \ {i} : world.item[j].on_map /\ world.item[j].char = world.item[i].char
       /\ \E j \in ItemIds : world.item[j].on_map /\ world.item[j].item_type = "c"
                               /\ ~identified(world, item_factories, j)

(***************************************************************************)
(* The status effects (components/status_effect.py) and                    *)
(* Consumable.apply_status.                                                *)
(***************************************************************************)
PlayerKinds == {"FreeSpit", "PetrifEyes", "Choking", "ThirdEyeBlind", "PetrifiedSnake"}

EnemyKinds == {"Petrified"}

BadKinds == {"Choking", "ThirdEyeBlind"}

Stats == {"BILE", "MIND"}

\* The duration each consumable passes to apply_status.
BaseDuration(kind) ==
  CASE kind = "FreeSpit" -> FreeSpitDuration
    [] kind = "PetrifEyes" -> PetrifEyesDuration
    [] kind = "PetrifiedSnake" -> PetrifyDuration
    [] OTHER -> DefaultDuration

\* StatusEffect.duration_mod / BadStatusEffect.duration_mod
duration_mod(w, kind) == IF kind \in BadKinds THEN 0 - w.MIND ELSE w.MIND

\* The amount each kind's strengthen() passes on to StatusEffect.strengthen.
StrengthenAmount(kind) ==
  IF kind \in {"Choking", "ThirdEyeBlind"} THEN DefaultStrength ELSE ShortStrength

StatusesOf(w, a) == IF a[1] = "player" THEN w.statuses ELSE w.enemy[a[2]].statuses

WithStatuses(w, a, sts) ==
  IF a[1] = "player" THEN [w EXCEPT !.statuses = sts]
  ELSE [w EXCEPT !.enemy[a[2]].statuses = sts]

\* A strengthen that starts the effect over at twice its base duration.
StrengthenDoubling(s) == [s EXCEPT !.duration = 2 * BaseDuration(s.kind)]

\* StatusEffect.strengthen, as the kind's own strengthen() calls it.
strengthen(s) == [s EXCEPT !.duration = s.duration + StrengthenAmount(s.kind)]

\* StatusEffect.__init__ and apply: a new instance at the end of the list.
new_status(w, a, kind, duration, stat) ==
  WithStatuses(w, a,
    Append(StatusesOf(w, a),
           [kind |-> kind, duration |-> duration + duration_mod(w, kind), stat |-> stat]))

\* Consumable.apply_status
apply_status(w, a, kind, duration) ==
  LET sts == StatusesOf(w, a)
      st == { k \in 1 .. Len(sts) : sts[k].kind = kind }
  IN IF st # {}
     THEN LET k == CHOOSE x \in st : \A y \in st : x <= y
          IN WithStatuses(w, a, [sts EXCEPT ![k] = strengthen(sts[k])])
     ELSE new_status(w, a, kind, duration, "")

\* StatBoostConsumable.activate, not permanent: StatBoost(10, target, stat, amount)
stat_boost(w, a, stat) == new_status(w, a, "StatBoost", StatBoostDuration, stat)

\* A turn's end that leaves every duration as it was.
DecrementNone(sts) == sts

\* A decrement that removes a status only once its duration is below 0.
DecrementLate(sts) ==
  SelectSeq([k \in 1 .. Len(sts) |-> [sts[k] EXCEPT !.duration = sts[k].duration - 1]],
            LAMBDA s : ~(s.duration < 0))

\* StatusEffect.decrement on every status of one actor: each loses 1 and
\* leaves the list when its duration drops below 1.
DecrementAll(sts) ==
  SelectSeq([k \in 1 .. Len(sts) |-> [sts[k] EXCEPT !.duration = sts[k].duration - 1]],
            LAMBDA s : ~(s.duration < 1))

\* The post-turn hooks of all actors.
on_turn_all(w) ==
  [w EXCEPT !.statuses = DecrementAll(w.statuses),
            !.enemy = [e \in EnemyIds |->
                         [w.enemy[e] EXCEPT !.statuses = DecrementAll(w.enemy[e].statuses)]]]

InitStatus ==
  /\ \E m \in 0 .. MaxMind : world = [World0 EXCEPT !.MIND = m]
  /\ InitCommon

StatusFrame ==
  /\ opcount < MaxStatusOps
  /\ opcount' = opcount + 1
  /\ UNCHANGED <<item_factories, turn_count, snapshots, just_turned_back_time, handler, replay,
                   forecast, enemy_phase>>

\* A consumable that calls apply_status on the player (digested) ...
ApplyPlayerStatus ==
  \E kind \in PlayerKinds :
    /\ world' = apply_status(world, <<"player", 0>>, kind, BaseDuration(kind))
    /\ outcome' = [op |-> "apply_status", actor |-> <<"player", 0>>, raised |-> FALSE, arg |-> kind]
    /\ StatusFrame

\* ... or on the enemy it was spat at.
ApplyEnemyStatus ==
  \E kind \in EnemyKinds, e \in EnemyIds :
    /\ world.enemy[e].on_map
    /\ world' = apply_status(world, <<"enemy", e>>, kind, BaseDuration(kind))
    /\ outcome' = [op |-> "apply_status", actor |-> <<"enemy", e>>, raised |-> FALSE, arg |-> kind]
    /\ StatusFrame

DigestStatBoost ==
  \E stat \in Stats :
    /\ world' = stat_boost(world, <<"player", 0>>, stat)
    /\ outcome' = [op |-> "stat_boost", actor |-> <<"player", 0>>, raised |-> FALSE, arg |-> stat]
    /\ StatusFrame

\* A completed turn; arg tells whether the player lost a status in it.
TurnEnds ==
  /\ world' = on_turn_all(world)
  /\ outcome' = [op |-> "on_turn", actor |-> <<"none", 0>>, raised |-> FALSE,
                 arg |-> IF Len(on_turn_all(world).statuses) < Len(world.statuses)
                         THEN "removed" ELSE ""]
  /\ StatusFrame

NextStatus == ApplyPlayerStatus \/ ApplyEnemyStatus \/ DigestStatBoost \/ TurnEnds

SpecStatus == InitStatus /\ [][NextStatus]_vars

Actors == {<<"player", 0>>} \cup { <<"enemy", e>> : e \in EnemyIds }

KindCount(sts, kind) == Cardinality({ k \in 1 .. Len(sts) : sts[k].kind = kind })

\* C5: no actor carries two status instances of the same effect kind.
C5_OneInstancePerKind ==
  \A a \in Actors :
    \A k \in 1 .. Len(StatusesOf(world, a)) :
      KindCount(StatusesOf(world, a), StatusesOf(world, a)[k].kind) <= 1

\* C6: applying a kind the actor already carries adds no instance and leaves
\* that instance with its former duration plus the kind's strengthen amount
\* (3, or 10 for Choking and ThirdEyeBlind).
C6_StrengthenAdds ==
  [][(outcome'.op = "apply_status"
        /\ KindCount(StatusesOf(world, outcome'.actor), outcome'.arg) = 1) =>
       LET a == outcome'.actor
           old == StatusesOf(world, a)
           new == StatusesOf(world', a)
           k == CHOOSE x \in 1 .. Len(old) : old[x].kind = outcome'.arg
           amount == IF outcome'.arg \in {"Choking", "ThirdEyeBlind"} THEN 10 ELSE 3
       IN /\ Len(new) = Len(old)
          /\ new[k].kind = old[k].kind
          /\ new[k].duration = old[k].duration + amount
          /\ \A j \in 1 .. Len(old) : j # k => new[j] = old[j]]_vars

\* A second application after the first instance had lost a turn: the result
\* differs from twice the base duration and from base plus amount.
C6_Witness ==
  /\ outcome.op = "apply_status" /\ outcome.arg = "PetrifEyes"
  /\ \E k \in 1 .. Len(world.statuses) :
       /\ world.statuses[k].kind = "PetrifEyes"
       /\ world.statuses[k].duration = (PetrifEyesDuration + world.MIND - 1) + 3
       /\ world.statuses[k].duration # 2 * PetrifEyesDuration
  /\ Len(world.statuses) >= 2

(***************************************************************************)
(* The actions of actions.py and the consumables they activate.  An action *)
(* yields the world and the identification table it leaves behind, whether *)
(* it raised Impossible, and whether it turned back time.  What an action  *)
(* changed before it raised stays changed.                                 *)
(***************************************************************************)
Res(w, tbl, raised, turned) ==
  [w |-> w, tbl |-> tbl, raised |-> raised, turned |-> turned, error |-> FALSE]

\* perform() left through an exception that is not Impossible: nothing in
\* handle_action catches it, the main loop logs it and the game goes on.
Crashed(w, tbl) ==
  [w |-> w, tbl |-> tbl, raised |-> FALSE, turned |-> FALSE, error |-> TRUE]

\* An update_fov that keeps of explored only what is visible now.
UpdateFovForgetting(w) ==
  [w EXCEPT !.visible = fov(w.head), !.explored = fov(w.head)]

\* GameMap.make_mapped: every tile that is no wall is mapped, the stairs are
\* explored.
make_mapped(w) ==
  [w EXCEPT !.mapped = @ \cup { p \in Pos : w.tiles[p] # "wall" },
            !.explored = @ \cup { p \in Pos : w.tiles[p] = "stairs" }]

\* Engine.update_fov
update_fov(w) ==
  [w EXCEPT !.visible = fov(w.head), !.explored = w.explored \cup fov(w.head)]

\* Item.consume: the item leaves the entity set and the inventory.
item_consume(w, i) ==
  [w EXCEPT !.item[i].on_map = FALSE,
            !.chain = SelectSeq(w.chain, LAMBDA j : j # i)]

InChain(w, i) == \E k \in 1 .. Len(w.chain) : w.chain[k] = i

\* inventory.items.index(item), counted from 0.
IndexOf(w, i) == (CHOOSE k \in 1 .. Len(w.chain) : w.chain[k] = i) - 1

\* Consumable.consume followed by the snake() it arranges (the two are one
\* method in components/consumable.py): the chain closes the gap.
consume(w, i) ==
  IF ~InChain(w, i) THEN item_consume(w, i)
  ELSE snake(item_consume(w, i), w.item[i].xy, IndexOf(w, i))

\* A take_damage that only subtracts.
TakeDamageSubtracting(w, e, amount, g, tbl) ==
  [w EXCEPT !.enemy[e].char = w.enemy[e].char - amount,
            !.enemy[e].base_char = w.enemy[e].base_char - amount]

\* Actor.take_damage of an enemy.
take_damage_enemy(w, e, amount, g, tbl) ==
  LET new_c == w.enemy[e].char - amount IN
  IF new_c < 0 THEN die_enemy(w, e, g, tbl)
  ELSE LET w1 == [w EXCEPT !.enemy[e].char = new_c]
           new_b == w.enemy[e].base_char - amount
       IN IF new_b < 0 THEN die_enemy(w1, e, g, tbl)
          ELSE [w1 EXCEPT !.enemy[e].base_char = new_b]

RECURSIVE DamageEnemies(_, _, _, _, _)
DamageEnemies(w, es, amount, cg, tbl) ==
  IF es = {} THEN w
  ELSE LET e == CHOOSE x \in es : \A y \in es : x <= y
       IN DamageEnemies(take_damage_enemy(w, e, amount, cg[e], tbl), es \ {e}, amount, cg, tbl)

\* game_map.actors within the radius of a tile.
EnemiesWithin(w, xy, r) ==
  { e \in EnemyIds : w.enemy[e].on_map /\ WithinRadius(w.enemy[e].xy, xy, r) }

PlayerWithin(w, xy, r) == w.alive /\ WithinRadius(w.head, xy, r)

\* A targets_hit that forgets the player among the actors.
TargetsHitEnemiesOnly(w, xy) == EnemiesWithin(w, xy, FireballRadius) # {}

\* The targets_hit flag of the old FireballDamageConsumable.activate.
targets_hit(w, xy) ==
  PlayerWithin(w, xy, FireballRadius) \/ EnemiesWithin(w, xy, FireballRadius) # {}

\* FireballDamageConsumable.activate (components/consumable.py)
FireballActivate(w, tbl, i, xy, cg) ==
  IF xy \notin w.visible THEN Res(w, tbl, TRUE, FALSE)
  ELSE LET w1 == DamageEnemies(w, EnemiesWithin(w, xy, FireballRadius), FireballDamage, cg, tbl)
           w2 == IF PlayerWithin(w, xy, FireballRadius) THEN die_player(w1) ELSE w1
       IN IF ~targets_hit(w, xy) THEN Res(w2, tbl, TRUE, FALSE)
          ELSE Res(consume(w2, i), tbl, FALSE, FALSE)

\* get_actor_at_location
ActorsAt(w, xy) ==
  (IF w.alive /\ w.head = xy THEN {<<"player", 0>>} ELSE {})
  \cup { <<"enemy", e>> : e \in EnemiesAt(w, xy) }

\* ConfusionConsumable.activate (components/consumable.py)
ConfusionActivate(w, tbl, i, xy, t) ==
  IF xy \notin w.visible THEN Res(w, tbl, TRUE, FALSE)
  ELSE IF t = <<"none", 0>> THEN Res(w, tbl, TRUE, FALSE)
  ELSE IF t = <<"player", 0>> THEN Res(w, tbl, TRUE, FALSE)
  ELSE Res(consume([w EXCEPT !.enemy[t[2]].ai = "confused"], i), tbl, FALSE, FALSE)

\* EntanglingConsumable.activate: the walkable tiles of the disc, the stairs
\* excepted, become snake-only.
EntanglingActivate(w, xy) ==
  [w EXCEPT !.tiles =
     [p \in Pos |->
        IF WithinRadius(p, xy, EntanglingRadius) /\ tile_is_walkable(w, p)
           /\ w.tiles[p] # "stairs"
        THEN "snake_only" ELSE w.tiles[p]]]

\* Projectile.consume, Consumable.consume: nothing is spent under FreeSpit.
ProjectileConsume(w, i) ==
  IF \E k \in 1 .. Len(w.statuses) : w.statuses[k].kind = "FreeSpit" THEN w
  ELSE item_consume(w, i)

\* EntanglingConsumable.start_activation, then Consumable.start_activation:
\* consume, activate, identify, snake.
EntanglingStartActivation(w, tbl, i, xy) ==
  IF xy \notin w.visible THEN Res(w, tbl, TRUE, FALSE)
  ELSE LET w1 == ProjectileConsume(w, i)
           w2 == EntanglingActivate(w1, xy)
           tbl2 == set_identified(w, tbl, i, TRUE)
           w3 == IF InChain(w, i) /\ ~InChain(w1, i)
                 THEN snake(w2, w.item[i].xy, IndexOf(w, i)) ELSE w2
       IN Res(w3, tbl2, FALSE, FALSE)

(***************************************************************************)
(* Engine.turn_back_time.                                                  *)
(***************************************************************************)
\* A target turn one turn too late.
RewindTargetOneLater(turncount, turns) ==
  IF turncount - turns < 1 THEN 1 ELSE turncount - turns + 1

\* turn = turn_count - turns, at least 1.
RewindTarget(turncount, turns) ==
  IF turncount - turns < 1 THEN 1 ELSE turncount - turns

\* for i in reversed(range(turn, turn_count)): each stored world in turn
\* replaces game_map and player.
\* What is stored for a turn whose snapshot file is missing or cannot be read.
Unreadable == [unreadable |-> TRUE]

\* open() or pickle.loads() raises on one of the snapshots the loop reads.
RestoreFails(snaps, turncount, turns) ==
  \E i \in RewindTarget(turncount, turns) .. (turncount - 1) : snaps[i] = Unreadable

\* The loop stops where a snapshot cannot be read: what it loaded so far stays.
RECURSIVE RestoreLoop(_, _, _, _)
RestoreLoop(w, snaps, turn, i) ==
  IF i < turn THEN w
  ELSE IF snaps[i] = Unreadable THEN w
  ELSE RestoreLoop(snaps[i], snaps, turn, i - 1)

\* A restore that reads the newest snapshot only.
RestoreNewestOnly(w, snaps, turncount, turns) ==
  IF turncount >= 2 THEN snaps[turncount - 1] ELSE w

restore(w, snaps, turncount, turns) ==
  RestoreLoop(w, snaps, RewindTarget(turncount, turns), turncount - 1)

\* The entities of the restored map that carry the turner's id are consumed.
remove_turner(w, i) ==
  IF ~w.item[i].on_map THEN w ELSE consume(w, i)

turn_back_time(w, tbl, snaps, turncount, turns, i) ==
  IF RestoreFails(snaps, turncount, turns)
  THEN Crashed(restore(w, snaps, turncount, turns), tbl)
  ELSE Res(remove_turner(restore(w, snaps, turncount, turns), i),
           set_identified(w, tbl, i, TRUE), FALSE, TRUE)

(***************************************************************************)
(* MeleeAction, BumpAction, TakeStairsAction.                              *)
(***************************************************************************)
\* MeleeAction.perform of enemy e towards d, the blocking entity found being t.
MeleeAction(w, tbl, e, t, g) ==
  IF t = <<"none", 0>> THEN Res(w, tbl, TRUE, FALSE)
  ELSE IF t[1] = "player" THEN Res(die_player(w), tbl, FALSE, FALSE)
  ELSE IF t[1] = "enemy" THEN Res(take_damage_enemy(w, t[2], MeleeDamage, g, tbl), tbl, FALSE, FALSE)
  ELSE Res(item_consume(w, t[2]), tbl, FALSE, FALSE)

\* The blocking entities MeleeAction can find at a tile (none when there is none).
MeleeTargets(w, dest) ==
  IF BlockersAt(w, dest) = {} THEN { <<"none", 0>> } ELSE BlockersAt(w, dest)

\* MovementAction.perform of an enemy.
EnemyMovementAction(w, tbl, e, d) ==
  IF ~MovementAllowed(w, Plus(w.enemy[e].xy, d)) THEN Res(w, tbl, TRUE, FALSE)
  ELSE Res(MovementEnemy(w, e, d), tbl, FALSE, FALSE)

\* MovementAction.perform of the player.
PlayerMovementAction(w, tbl, d, ord, cg) ==
  IF ~MovementAllowed(w, Plus(w.head, d)) THEN Res(w, tbl, TRUE, FALSE)
  ELSE Res(MovementPlayer(w, d, ord, cg, tbl), tbl, FALSE, FALSE)

\* BumpAction.perform of an enemy.
EnemyBumpAction(w, tbl, e, d, t, g) ==
  IF get_blocking_entity_at_location(w, Plus(w.enemy[e].xy, d))
  THEN MeleeAction(w, tbl, e, t, g)
  ELSE EnemyMovementAction(w, tbl, e, d)

\* GameWorld.generate_floor: a new map holding the player and the chain, all
\* gathered on the starting tile, none of them solid.
generate_floor(w) ==
  [w EXCEPT !.floor = w.floor + 1,
            !.head = PlayerStart,
            !.tiles = Tiles0,
            !.downstairs = DownstairsAt,
            !.visible = {},
            !.explored = {},
            !.mapped = {},
            !.enemy = [e \in EnemyIds |-> [w.enemy[e] EXCEPT !.on_map = FALSE]],
            !.item = [i \in DOMAIN w.item |->
                        IF InChain(w, i)
                        THEN [w.item[i] EXCEPT !.xy = PlayerStart, !.solid = FALSE]
                        ELSE [w.item[i] EXCEPT !.on_map = FALSE]]]

\* A TakeStairsAction that descends from any tile.
TakeStairsAnywhere(w, tbl) == Res(generate_floor(w), tbl, FALSE, FALSE)

\* TakeStairsAction.perform
TakeStairsAction(w, tbl) ==
  IF w.head = w.downstairs THEN Res(generate_floor(w), tbl, FALSE, FALSE)
  ELSE Res(w, tbl, TRUE, FALSE)

(***************************************************************************)
(* ItemAction and ThrowItem.  The glyph decides the consumables of an item.*)
(***************************************************************************)
Edible(g) ==
  CASE g = "b" -> "TimeReverse"
    [] g = "t" -> "Confusion"
    [] OTHER -> "PetrifEyes"

Spitable(g) ==
  CASE g = "b" -> "Fireball"
    [] g = "t" -> "Entangling"
    [] OTHER -> "PetrifyEnemy"

\* The number of turns a rewind may be asked for: the TimeReverseConsumable
\* asks for TimeReverseTurns.
RewindTurns == {1, 2, TimeReverseTurns}

\* action.target_actor as the consumables read it.
TargetActors(w, xy) == IF ActorsAt(w, xy) = {} THEN { <<"none", 0>> } ELSE ActorsAt(w, xy)

\* x.activate(action) for the consumable kind x of item i, aimed at xy.
Activate(kind, w, tbl, snaps, turncount, turns, i, xy, t, cg) ==
  CASE kind = "TimeReverse" -> turn_back_time(w, tbl, snaps, turncount, turns, i)
    [] kind = "Confusion" -> ConfusionActivate(w, tbl, i, xy, t)
    [] kind = "Fireball" -> FireballActivate(w, tbl, i, xy, cg)
    [] kind = "Entangling" -> Res(EntanglingActivate(w, xy), tbl, FALSE, FALSE)
    [] kind = "PetrifEyes" ->
         Res(apply_status(w, <<"player", 0>>, "PetrifEyes", PetrifEyesDuration), tbl, FALSE, FALSE)
    [] OTHER ->
         IF t = <<"none", 0>> THEN Res(w, tbl, FALSE, FALSE)
         ELSE Res(apply_status(w, t, "Petrified", DefaultDuration), tbl, FALSE, FALSE)

\* ItemAction.perform: the item's edible is activated at the player's own tile.
ItemAction(w, tbl, snaps, turncount, turns, i, t, cg) ==
  Activate(Edible(w.item[i].char), w, tbl, snaps, turncount, turns, i, w.head, t, cg)

\* ThrowItem.perform: the item's spitable is activated at the target tile.
ThrowItem(w, tbl, snaps, turncount, turns, i, xy, t, cg) ==
  Activate(Spitable(w.item[i].char), w, tbl, snaps, turncount, turns, i, xy, t, cg)

(***************************************************************************)
(* The action specification: the player and the enemies perform actions of *)
(* every kind, one perform() per step.  After a player action that went    *)
(* through the field of view is refreshed, as handle_action does.          *)
(***************************************************************************)
InitAct == world = World0 /\ InitCommon

\* The step that performed an action with result r.
Performed(r, op, actor, arg) ==
  /\ opcount < MaxActs
  /\ opcount' = opcount + 1
  /\ world' = IF actor[1] = "player" /\ ~r.raised /\ ~r.error THEN update_fov(r.w) ELSE r.w
  /\ item_factories' = r.tbl
  /\ just_turned_back_time' = (just_turned_back_time \/ r.turned)
  /\ outcome' = [op |-> op, actor |-> actor, raised |-> r.raised, arg |-> arg]
  /\ UNCHANGED <<turn_count, snapshots, handler, replay, forecast, enemy_phase>>

ActMove ==
  \E d \in DIRECTIONS :
    /\ world.alive
    /\ \E ord \in Orders(ItemsAt(world, Plus(world.head, d))), cg \in [EnemyIds -> Consonants] :
         Performed(PlayerMovementAction(world, item_factories, d, ord, cg),
                   "move", <<"player", 0>>, "")

ActEnemyBump ==
  \E e \in EnemyIds, d \in DIRECTIONS, g \in Consonants :
    /\ world.alive /\ world.enemy[e].on_map
    /\ \E t \in MeleeTargets(world, Plus(world.enemy[e].xy, d)) :
         Performed(EnemyBumpAction(world, item_factories, e, d, t, g),
                   "bump", <<"enemy", e>>, "")

ActEnemyMelee ==
  \E e \in EnemyIds, d \in DIRECTIONS, g \in Consonants :
    /\ world.alive /\ world.enemy[e].on_map
    /\ \E t \in MeleeTargets(world, Plus(world.enemy[e].xy, d)) :
         Performed(MeleeAction(world, item_factories, e, t, g),
                   "melee", <<"enemy", e>>, "")

ActTakeStairs ==
  /\ world.alive
  /\ world.floor < MaxFloor
  /\ Performed(TakeStairsAction(world, item_factories), "stairs", <<"player", 0>>, "")

ActDigest ==
  \E k \in 1 .. Len(world.chain), cg \in [EnemyIds -> Consonants] :
    /\ world.alive
    /\ \E t \in TargetActors(world, world.head) :
         Performed(ItemAction(world, item_factories, snapshots, turn_count,
                              TimeReverseTurns, world.chain[k], t, cg),
                   "digest", <<"player", 0>>, Edible(world.item[world.chain[k]].char))

ActThrow ==
  \E k \in 1 .. Len(world.chain), xy \in Pos, cg \in [EnemyIds -> Consonants] :
    /\ world.alive
    /\ \E t \in TargetActors(world, xy) :
         Performed(ThrowItem(world, item_factories, snapshots, turn_count,
                             TimeReverseTurns, world.chain[k], xy, t, cg),
                   "throw", <<"player", 0>>, Spitable(world.item[world.chain[k]].char))

ActStartActivation ==
  \E k \in 1 .. Len(world.chain), xy \in Pos :
    /\ world.alive
    /\ Spitable(world.item[world.chain[k]].char) = "Entangling"
    /\ Performed(EntanglingStartActivation(world, item_factories, world.chain[k], xy),
                 "start_activation", <<"player", 0>>, "Entangling")

NextAct ==
  \/ ActMove
  \/ ActEnemyBump
  \/ ActEnemyMelee
  \/ ActTakeStairs
  \/ ActDigest
  \/ ActThrow
  \/ ActStartActivation

SpecAct == InitAct /\ [][NextAct]_vars

\* C8: an action of any kind that raises Impossible leaves the world as it
\* was before perform(): positions, chain, statuses, health digits, tiles,
\* floor and the identification table are those of the state before.
C8_ImpossibleLeavesWorld ==
  [][outcome'.raised => (world' = world /\ item_factories' = item_factories)]_vars

\* A throw that raised because no actor stood within the radius of a tile in view.
C8_Witness ==
  /\ outcome.op = "throw" /\ outcome.arg = "Fireball" /\ outcome.raised
  /\ \E xy \in world.visible : ~targets_hit(world, xy)
  /\ Len(world.chain) > 0

(***************************************************************************)
(* The turn scheduler: EventHandler.handle_events / handle_action and      *)
(* Engine.handle_enemy_turns.                                              *)
(***************************************************************************)
Waiting == <<0, 0>>

Sign(n) == IF n < 0 THEN -1 ELSE IF n > 0 THEN 1 ELSE 0

\* The step of a hostile enemy towards the head.
Approach(w, e) == <<Sign(w.head[1] - w.enemy[e].xy[1]), Sign(w.head[2] - w.enemy[e].xy[2])>>

\* The intents an enemy may hold when its turn comes: to wait or to bump
\* towards the head.
EnemyIntents(w, e) ==
  IF w.enemy[e].on_map /\ w.enemy[e].ai # "constricted"
  THEN {Waiting, Approach(w, e)} ELSE {Waiting}

HasKind(sts, kind) == \E k \in 1 .. Len(sts) : sts[k].kind = kind

\* The blocking entity and the actor found at a tile.
BlockingEntity(w, dest) == CHOOSE t \in MeleeTargets(w, dest) : TRUE

TargetActor(w, xy) == CHOOSE t \in TargetActors(w, xy) : TRUE

\* An enemy's turn that no status of the player or the enemy holds back.
EnemyTurnWhateverTheStatus(w, tbl, e, ch) ==
  IF w.enemy[e].ai = "constricted" \/ ch.intents[e] = Waiting
  THEN [w |-> w, acted |-> TRUE, raised |-> FALSE]
  ELSE LET r == EnemyBumpAction(w, tbl, e, ch.intents[e],
                                BlockingEntity(w, Plus(w.enemy[e].xy, ch.intents[e])),
                                ch.cg[e])
       IN [w |-> r.w, acted |-> TRUE, raised |-> r.raised]

\* One enemy's turn: skipped under PetrifEyes when in view and when
\* petrified or phased out; otherwise its intent is performed, an Impossible
\* passed over.  acted tells whether ai.perform() was called, after which the
\* loop looks at the player's life, raised whether perform() left through
\* Impossible.
EnemyTurn(w, tbl, e, ch) ==
  IF HasKind(w.statuses, "PetrifEyes") /\ w.enemy[e].xy \in w.visible
     /\ w.enemy[e].ai # "constricted"
  THEN [w |-> w, acted |-> FALSE, raised |-> FALSE]
  ELSE IF (HasKind(w.enemy[e].statuses, "Petrified") \/ HasKind(w.enemy[e].statuses, "PhasedOut"))
          /\ w.enemy[e].ai # "constricted"
  THEN [w |-> w, acted |-> FALSE, raised |-> FALSE]
  ELSE IF w.enemy[e].ai = "constricted" \/ ch.intents[e] = Waiting
  THEN [w |-> w, acted |-> TRUE, raised |-> FALSE]
  ELSE LET r == EnemyBumpAction(w, tbl, e, ch.intents[e],
                                BlockingEntity(w, Plus(w.enemy[e].xy, ch.intents[e])),
                                ch.cg[e])
       IN [w |-> r.w, acted |-> TRUE, raised |-> r.raised]

\* A loop that an enemy's Impossible ends as well.
StopsLoopOnImpossible(r) == r.raised \/ (r.acted /\ ~r.w.alive)

\* if not self.player.is_alive: return, met after an enemy's perform().
StopsLoop(r) == r.acted /\ ~r.w.alive

\* F applied to the value of v, v being worked out once.
Bind(v, F(_)) == CHOOSE y \in { F(x) : x \in {v} } : TRUE

\* The loop over the enemies in the order of their ids; it returns early once
\* the player is dead after an enemy acted.  log keeps the enemies whose turn
\* came and those whose perform() raised Impossible.
RECURSIVE EnemyTurnsLoop(_, _, _, _, _)
EnemyTurnsLoop(w, tbl, es, ch, log) ==
  IF es = {} THEN [w |-> w, early |-> FALSE, log |-> log]
  ELSE LET e == CHOOSE x \in es : \A y \in es : x <= y IN
       Bind(EnemyTurn(w, tbl, e, ch), LAMBDA r :
         LET lg == [reached |-> log.reached \cup {e},
                    raised |-> log.raised \cup (IF r.raised THEN {e} ELSE {}),
                    performed |-> log.performed \cup (IF r.acted THEN {e} ELSE {})]
         IN IF StopsLoop(r) THEN [w |-> r.w, early |-> TRUE, log |-> lg]
            ELSE EnemyTurnsLoop(r.w, tbl, es \ {e}, ch, lg))

\* Engine.handle_enemy_turns on the engine st = (world, turn_count, snapshots):
\* the enemies act, the post-turn hooks run, the turn is counted and stored.
\* last keeps what the latest phase met: the enemies on the map, the log of
\* the loop, the world the loop left and whether the loop returned early.
handle_enemy_turns(st, tbl, ch) ==
  LET es == { e \in EnemyIds : st.w.enemy[e].on_map } IN
  Bind(EnemyTurnsLoop(st.w, tbl, es, ch, NoTurns), LAMBDA r :
    LET last == [enemies |-> es, reached |-> r.log.reached, raised |-> r.log.raised,
                 performed |-> r.log.performed, before |-> st.w,
                 after |-> r.w, early |-> r.early]
    IN IF r.early THEN [st EXCEPT !.w = r.w, !.calls = st.calls + 1, !.last = last]
       ELSE Bind(on_turn_all(r.w), LAMBDA w1 :
              [w |-> w1, turn |-> st.turn + 1, snaps |-> Append(st.snaps, w1),
               calls |-> st.calls + 1, last |-> last]))

\* while the player carries PetrifiedSnake and lives: handle_enemy_turns()
RECURSIVE PetrifiedLoop(_, _, _)
PetrifiedLoop(st, tbl, ch) ==
  IF HasKind(st.w.statuses, "PetrifiedSnake") /\ st.w.alive
  THEN PetrifiedLoop(handle_enemy_turns(st, tbl, ch), tbl, ch)
  ELSE st

\* action.perform() for the action an input dispatches to.
PerformInput(w, tbl, snaps, turn, inp, ch) ==
  CASE inp.kind = "move" -> PlayerMovementAction(w, tbl, inp.d, ch.ord, ch.cg)
    [] inp.kind = "wait" -> Res(w, tbl, FALSE, FALSE)
    [] inp.kind = "stairs" -> TakeStairsAction(w, tbl)
    [] inp.kind = "map" -> Res(make_mapped(w), tbl, FALSE, FALSE)
    [] inp.kind = "digest" ->
         ItemAction(w, tbl, snaps, turn, inp.turns, inp.i, TargetActor(w, w.head), ch.cg)
    [] OTHER ->
         ThrowItem(w, tbl, snaps, turn, inp.turns, inp.i, inp.xy, TargetActor(w, inp.xy), ch.cg)

\* A handle_action that lets the enemies move whatever perform() did.
HandleActionAlwaysAdvance(w, tbl, snaps, turn, inp, ch) ==
  LET r == PerformInput(w, tbl, snaps, turn, inp, ch)
      st == handle_enemy_turns([w |-> r.w, turn |-> turn, snaps |-> snaps, calls |-> 0,
                                last |-> NoPhase], r.tbl, ch)
  IN [w |-> update_fov(st.w), tbl |-> r.tbl, turn |-> st.turn, snaps |-> st.snaps,
      handled |-> ~r.raised, raised |-> r.raised, turned |-> r.turned,
      phases |-> st.calls, error |-> r.error, last |-> st.last]

\* EventHandler.handle_action: what it leaves of the engine, whether it
\* returned True, how many enemy phases it ran, and whether perform() left
\* through an exception it does not catch.
handle_action(w, tbl, snaps, turn, inp, ch) ==
  Bind(PerformInput(w, tbl, snaps, turn, inp, ch), LAMBDA r :
  IF r.raised \/ r.error
  THEN [w |-> r.w, tbl |-> r.tbl, turn |-> turn, snaps |-> snaps,
        handled |-> FALSE, raised |-> r.raised, turned |-> FALSE, phases |-> 0,
        error |-> r.error, last |-> NoPhase]
  ELSE LET st0 == [w |-> r.w, turn |-> turn, snaps |-> snaps, calls |-> 0,
                   last |-> NoPhase]
       IN Bind(PetrifiedLoop(st0, r.tbl, ch), LAMBDA st1 :
          Bind(IF ~r.turned THEN handle_enemy_turns(st1, r.tbl, ch) ELSE st1, LAMBDA st2 :
            [w |-> update_fov(st2.w), tbl |-> r.tbl, turn |-> st2.turn, snaps |-> st2.snaps,
             handled |-> TRUE, raised |-> FALSE, turned |-> r.turned,
             phases |-> st2.calls, error |-> FALSE, last |-> st2.last])))

(***************************************************************************)
(* The turn specification: the player's inputs reach handle_events one by  *)
(* one.  Every input that completed a turn is logged with the draws made   *)
(* during it; after a rewind the logged inputs of the turns taken back are *)
(* played again with the same draws.                                       *)
(***************************************************************************)
NoItem == 0

Input(kind, d, i, xy, turns) == [kind |-> kind, d |-> d, i |-> i, xy |-> xy, turns |-> turns]

\* The inputs the main handler can turn into an action in world w.
Inputs(w) ==
  { Input("move", d, NoItem, <<0, 0>>, 0) : d \in DIRECTIONS }
  \cup { Input("wait", <<0, 0>>, NoItem, <<0, 0>>, 0), Input("stairs", <<0, 0>>, NoItem, <<0, 0>>, 0) }
  \cup { Input("digest", <<0, 0>>, w.chain[k], <<0, 0>>,
               IF Edible(w.item[w.chain[k]].char) = "TimeReverse" THEN n ELSE 0) :
           k \in 1 .. Len(w.chain), n \in RewindTurns }
  \cup { Input("throw", <<0, 0>>, w.chain[k], xy, 0) : k \in 1 .. Len(w.chain), xy \in Pos }

CanonGlyph == CHOOSE g \in Consonants : TRUE

\* The draws of one turn: the order in which the pickup loop meets the items,
\* the glyph of the corpse of each enemy on the map, the intent of each enemy.
Draws(w, inp) ==
  { [ord |-> ord, cg |-> cg, intents |-> it] :
      ord \in (IF inp.kind = "move" THEN Orders(ItemsAt(w, Plus(w.head, inp.d))) ELSE { <<>> }),
      cg \in { f \in [EnemyIds -> Consonants] :
                \A e \in EnemyIds : ~w.enemy[e].on_map => f[e] = CanonGlyph },
      it \in { f \in [EnemyIds -> {Waiting} \cup DIRECTIONS] :
                 \A e \in EnemyIds : f[e] \in EnemyIntents(w, e) } }

\* A draw of a corpse glyph matters only when the corpse appeared.
DrawsMatter(w, w2, ch) ==
  \A e \in EnemyIds :
    (w2.item[CorpseId(e)].on_map = w.item[CorpseId(e)].on_map) => ch.cg[e] = CanonGlyph

\* handle_events of the main handler: the next handler.
NextHandler(h, r) ==
  IF ~r.handled THEN h
  ELSE IF ~r.w.alive THEN "game_over" ELSE "main"

\* The engine after handle_events took input inp with draws ch.
Handled(r, inp) ==
  /\ world' = r.w
  /\ item_factories' = r.tbl
  /\ turn_count' = r.turn
  /\ snapshots' = r.snaps
  /\ just_turned_back_time' = FALSE
  /\ handler' = NextHandler(handler, r)
  /\ outcome' = [op |-> inp.kind, actor |-> <<"player", 0>>, raised |-> r.raised,
                 arg |-> IF r.error THEN "error" ELSE "input"]
  /\ UNCHANGED <<opcount, forecast, enemy_phase>>

\* The turn the world stands at after a rewind from turn T.
RestoredTurn(T, turns) == IF T >= 2 THEN RewindTarget(T, turns) ELSE T

LogFrom(log, n) == SelectSeq(log, LAMBDA en : en.turn > n)

PlayerInput ==
  /\ handler = "main"
  /\ replay.mode = "play"
  /\ turn_count < MaxTurn
  /\ \E inp \in Inputs(world) :
       \E ch \in Draws(world, inp) :
         \E r \in { handle_action(world, item_factories, snapshots, turn_count, inp, ch) } :
           /\ DrawsMatter(world, r.w, ch)
           /\ Handled(r, inp)
           /\ replay' =
                IF r.turned
                THEN LET todo == LogFrom(replay.log, RestoredTurn(turn_count, inp.turns)) IN
                     [replay EXCEPT !.mode = IF todo = <<>> THEN "done" ELSE "replay",
                                    !.todo = todo, !.pre = world, !.turner = inp.i,
                                    !.restored = restore(world, snapshots, turn_count, inp.turns),
                                    !.T = turn_count, !.K = inp.turns,
                                    !.phases = replay.phases + r.phases]
                ELSE IF r.turn > turn_count
                THEN [replay EXCEPT !.log = Append(replay.log, [inp |-> inp, ch |-> ch, turn |-> r.turn]),
                                    !.phases = replay.phases + r.phases]
                ELSE [replay EXCEPT !.phases = replay.phases + r.phases]

\* The next logged input is given again, with the draws of the first time.
ReplayInput ==
  /\ handler = "main"
  /\ replay.mode = "replay"
  /\ \E en \in { Head(replay.todo) } :
     \E r \in { handle_action(world, item_factories, snapshots, turn_count, en.inp, en.ch) } :
        /\ Handled(r, en.inp)
        /\ replay' = [replay EXCEPT !.todo = Tail(replay.todo),
                                    !.mode = IF Tail(replay.todo) = <<>> THEN "done" ELSE "replay",
                                    !.phases = replay.phases + r.phases]

InitTurn == world = World0 /\ InitCommon

NextTurn == PlayerInput \/ ReplayInput

SpecTurn == InitTurn /\ [][NextTurn]_vars

\* C7: a player action that fails with Impossible consumes no turn: the turn
\* counter is unchanged, no enemy phase runs, no snapshot is written and the
\* active input handler is the one that was active.
C7_ImpossibleTakesNoTurn ==
  [][(outcome'.arg = "input" /\ outcome'.raised) =>
       /\ turn_count' = turn_count
       /\ replay'.phases = replay.phases
       /\ snapshots' = snapshots
       /\ handler' = handler]_vars

\* An input that raised Impossible after turns had been played.
C7_Witness ==
  /\ outcome.arg = "input" /\ outcome.raised
  /\ turn_count >= 1
  /\ replay.phases >= 1
  /\ \E e \in EnemyIds : world.enemy[e].on_map

\* The inputs a rewind left to be played again.
Replayed == LogFrom(replay.log, RestoredTurn(replay.T, replay.K))

WithoutTurner(chain) == SelectSeq(chain, LAMBDA j : j # replay.turner)

\* During the turns taken back the enemies waited and no stairs were taken.
QuietWindow ==
  \A n \in 1 .. Len(Replayed) :
    /\ Replayed[n].inp.kind # "stairs"
    /\ \A e \in EnemyIds : Replayed[n].ch.intents[e] = Waiting

C10_RestoresClampedSnapshot ==
  (replay.mode # "play" /\ replay.T >= 1) =>
    replay.restored = snapshots[IF replay.T - replay.K < 1 THEN 1 ELSE replay.T - replay.K]

\* C10, amended: from a turn T >= 2 the restore leaves the map and the player
\* of the snapshot of turn max(1, T - K); from a turn T <= 1 no snapshot is
\* read and the map and the player stay those of the moment of the rewind.
C10_RestoresClampedSnapshotFromTurn2 ==
  (replay.mode # "play") =>
    /\ (replay.T >= 2 =>
          replay.restored = snapshots[IF replay.T - replay.K < 1 THEN 1 ELSE replay.T - replay.K])
    /\ (replay.T <= 1 => replay.restored = replay.pre)

\* A rewind by one turn from turn 3 (the snapshot of turn 2, not clamped) ...
C10_Witness ==
  /\ replay.mode # "play"
  /\ replay.T = 3 /\ replay.K = 1
  /\ replay.restored = snapshots[2]
  /\ replay.restored # snapshots[1]
  /\ replay.restored # replay.pre

(***************************************************************************)
(* The rewind specification: the turns of SpecTurn up to the first rewind  *)
(* that goes through, while snapshot files may get lost or damaged between *)
(* two inputs.                                                             *)
(***************************************************************************)
\* A stored snapshot becomes missing or unreadable.
LoseSnapshot ==
  /\ handler = "main"
  /\ replay.mode = "play"
  /\ Cardinality({ k \in 1 .. Len(snapshots) : snapshots[k] = Unreadable }) < MaxLost
  /\ \E i \in 1 .. Len(snapshots) :
       /\ snapshots[i] # Unreadable
       /\ snapshots' = [snapshots EXCEPT ![i] = Unreadable]
  /\ outcome' = [op |-> "lose_snapshot", actor |-> <<"none", 0>>, raised |-> FALSE, arg |-> ""]
  /\ UNCHANGED <<world, item_factories, turn_count, just_turned_back_time, handler,
                 opcount, replay, forecast, enemy_phase>>

NextRewind == PlayerInput \/ LoseSnapshot

SpecRewind == InitTurn /\ [][NextRewind]_vars

\* C11: a rewind that meets a missing or unreadable snapshot leaves the map,
\* the player and the entities exactly as they were before the rewind started.
C11_FailedRewindLeavesWorld ==
  [][outcome'.arg = "error" => world' = world]_vars

(***************************************************************************)
(* The forecast specification: every enemy's ai holds the intent it        *)
(* decided on before the player acts; the player moves, waits or takes the *)
(* stairs, and handle_enemy_turns settles what each enemy performs.        *)
(***************************************************************************)
\* words.txt, the dictionary behind Engine.is_valid_word.
Words == { <<"b">>, <<"t", "b">> }

\* ''.join(i.char for i in inventory.items)
ChainWord(w) == [k \in 1 .. Len(w.chain) |-> w.item[w.chain[k]].char]

is_valid_word(word) == word \in Words

\* Engine.check_word_mode: the value it leaves in engine.word_mode.
check_word_mode(w) == Len(w.chain) >= 1 /\ is_valid_word(ChainWord(w))

\* engine.word_mode after the player's action: PickupAction calls
\* check_word_mode after every item it appends to the chain.
WordModeAfter(w, w2, wm) ==
  IF Len(w2.chain) > Len(w.chain) THEN check_word_mode(w2) ELSE wm

\* A scheduler that clears the intents in word mode too.
ClearedAlways(wm, intent) == intent # Waiting

\* handle_enemy_turns, the first loop: outside word mode every intent that
\* is not a wait is cleared.
ClearedByScheduler(wm, intent) == ~wm /\ intent # Waiting

\* Actor.pre_turn: an enemy whose intent was cleared decides on a fresh one.
pre_turn(wm, cached, fresh) == IF ClearedByScheduler(wm, cached) THEN fresh ELSE cached

\* The intents the enemies may decide on in world w.
Decisions(w) ==
  { f \in [EnemyIds -> {Waiting} \cup DIRECTIONS] : \A e \in EnemyIds : f[e] \in EnemyIntents(w, e) }

ForecastInputs ==
  { Input("move", d, NoItem, <<0, 0>>, 0) : d \in DIRECTIONS }
  \cup { Input("wait", <<0, 0>>, NoItem, <<0, 0>>, 0), Input("stairs", <<0, 0>>, NoItem, <<0, 0>>, 0) }

InitForecast ==
  /\ world = World0
  /\ item_factories = Factories0
  /\ turn_count = 0
  /\ snapshots = <<>>
  /\ just_turned_back_time = FALSE
  /\ handler = "main"
  /\ outcome = NoOutcome
  /\ opcount = 0
  /\ replay = NoReplay
  /\ \E f \in Decisions(World0) : forecast = [NoForecast EXCEPT !.intent = f]
  /\ enemy_phase = NoPhase

\* One input of the player: perform(), the word-mode check of the pickup,
\* then the enemy phase with the intents the scheduler left or had redone,
\* after which every enemy decides on its next intent.
ForecastTurn ==
  /\ handler = "main"
  /\ turn_count < MaxTurn
  /\ \E inp \in ForecastInputs :
     \E ch0 \in Draws(world, inp) :
     \E r0 \in { PerformInput(world, item_factories, snapshots, turn_count, inp, ch0) } :
     \E fresh \in Decisions(r0.w) :
       LET wm == IF r0.raised THEN forecast.word_mode
                 ELSE WordModeAfter(world, r0.w, forecast.word_mode)
           done == [e \in EnemyIds |-> pre_turn(wm, forecast.intent[e], fresh[e])]
           ch == [ch0 EXCEPT !.intents = done]
       IN \E r \in { handle_action(world, item_factories, snapshots, turn_count, inp, ch) } :
          \E next \in Decisions(r.w) :
            /\ DrawsMatter(world, r.w, ch)
            /\ r.raised => (fresh = forecast.intent /\ next = forecast.intent)
            /\ world' = r.w
            /\ item_factories' = r.tbl
            /\ turn_count' = r.turn
            /\ snapshots' = r.snaps
            /\ just_turned_back_time' = FALSE
            /\ handler' = NextHandler(handler, r)
            /\ outcome' = [op |-> inp.kind, actor |-> <<"player", 0>>, raised |-> r.raised,
                           arg |-> "forecast"]
            /\ forecast' = IF r.raised THEN forecast
                           ELSE [word_mode |-> wm, before |-> forecast.word_mode,
                                 intent |-> next, done |-> done]
            /\ UNCHANGED <<opcount, replay, enemy_phase>>

NextForecast == ForecastTurn

SpecForecast == InitForecast /\ [][NextForecast]_vars

\* No status that blinds or petrifies is involved.
NoBlinding(w) ==
  /\ ~HasKind(w.statuses, "PetrifEyes") /\ ~HasKind(w.statuses, "PetrifiedSnake")
  /\ ~HasKind(w.statuses, "ThirdEyeBlind")
  /\ \A e \in EnemyIds : ~HasKind(w.enemy[e].statuses, "Petrified")

WorldAllEnemies ==
  [World0 EXCEPT !.enemy = [e \in EnemyIds |-> [Enemy0(e) EXCEPT !.on_map = TRUE]]]

InitPhase == world = WorldAllEnemies /\ InitCommon

PhaseTurn ==
  /\ handler = "main"
  /\ turn_count < MaxTurn
  /\ \E inp \in ForecastInputs :
     \E ch \in Draws(world, inp) :
     \E r \in { handle_action(world, item_factories, snapshots, turn_count, inp, ch) } :
       /\ DrawsMatter(world, r.w, ch)
       /\ world' = r.w
       /\ item_factories' = r.tbl
       /\ turn_count' = r.turn
       /\ snapshots' = r.snaps
       /\ just_turned_back_time' = FALSE
       /\ handler' = NextHandler(handler, r)
       /\ outcome' = [op |-> inp.kind, actor |-> <<"player", 0>>, raised |-> r.raised,
                      arg |-> "phase"]
       /\ enemy_phase' = r.last
       /\ UNCHANGED <<opcount, replay, forecast>>

NextPhase == PhaseTurn

SpecPhase == InitPhase /\ [][NextPhase]_vars

\* The phase went through to its end: every enemy after e had its turn, the
\* post-turn hooks ran on the world the loop left, the turn was counted and
\* its snapshot stored.
PhaseCompleted(ph, w2, turn, turn2, snaps, snaps2) ==
  /\ \A e \in ph.raised : \A e2 \in ph.enemies : e2 > e => e2 \in ph.reached
  /\ w2 = update_fov(on_turn_all(ph.after))
  /\ turn2 = turn + 1
  /\ snaps2 = Append(snaps, on_turn_all(ph.after))

\* C13 as stated: in an enemy phase in which an enemy's perform() raised
\* Impossible, every later enemy has its turn, the post-turn hooks run, the
\* turn counter is incremented and the snapshot is written.
C13_ImpossibleDiscarded ==
  [][(outcome'.arg = "phase" /\ enemy_phase'.raised # {}) =>
       PhaseCompleted(enemy_phase', world', turn_count, turn_count', snapshots, snapshots')]_vars

\* C13, amended: in an enemy phase in which an enemy's perform() raised
\* Impossible and which the player survives, every later enemy has its turn,
\* the post-turn hooks run, the turn counter is incremented and the snapshot
\* is written.
C13_ImpossibleDiscardedWhilePlayerLives ==
  [][(outcome'.arg = "phase" /\ enemy_phase'.raised # {} /\ enemy_phase'.after.alive) =>
       PhaseCompleted(enemy_phase', world', turn_count, turn_count', snapshots, snapshots')]_vars

\* A completed phase in which an enemy raised Impossible and a later enemy
\* moved.
C13_Witness ==
  /\ outcome.arg = "phase" /\ ~outcome.raised
  /\ enemy_phase.after.alive
  /\ \E e \in enemy_phase.raised : \E e2 \in enemy_phase.reached :
       /\ e2 > e
       /\ enemy_phase.after.enemy[e2].xy # EnemyStart(e2)
  /\ turn_count = 1

(***************************************************************************)
(* The petrification specification: handle_action taken one statement at a *)
(* time.  The player moves, waits or takes the stairs in one step each; a  *)
(* digested PetrifyConsumable leaves handle_action at its while loop       *)
(* (handler = "auto_advance"), every pass of which is one step, and the    *)
(* statements after the loop are the step that hands control back.         *)
(***************************************************************************)
\* PetrifyConsumable.activate, reached from ItemAction.perform: the target
\* actor is the one on the player's own tile.
PetrifyActivate(w, tbl) ==
  Res(apply_status(w, <<"player", 0>>, "PetrifiedSnake", PetrifyDuration), tbl, FALSE, FALSE)

\* The condition of the while loop of handle_action.
AutoAdvancing(w) == HasKind(w.statuses, "PetrifiedSnake") /\ w.alive

\* The duration left of the player's petrification (0 when there is none).
PetrifiedFor(w) ==
  IF HasKind(w.statuses, "PetrifiedSnake")
  THEN w.statuses[CHOOSE k \in 1 .. Len(w.statuses) : w.statuses[k].kind = "PetrifiedSnake"].duration
  ELSE 0

InitPetrify ==
  /\ \E m \in 0 .. MaxMind : world = [World0 EXCEPT !.MIND = m]
  /\ InitCommon

\* An input that is no digestion, handled from perform() to update_fov().
PetrifyPlayerStep ==
  /\ handler = "main"
  /\ turn_count < MaxTurn
  /\ \E inp \in ForecastInputs :
     \E ch \in Draws(world, inp) :
     \E r \in { handle_action(world, item_factories, snapshots, turn_count, inp, ch) } :
       /\ DrawsMatter(world, r.w, ch)
       /\ world' = r.w
       /\ item_factories' = r.tbl
       /\ turn_count' = r.turn
       /\ snapshots' = r.snaps
       /\ handler' = NextHandler(handler, r)
       /\ outcome' = [op |-> inp.kind, actor |-> <<"player", 0>>, raised |-> r.raised,
                      arg |-> "input"]
       /\ UNCHANGED <<just_turned_back_time, opcount, replay, forecast, enemy_phase>>

\* The player digests a segment carrying a PetrifyConsumable: perform() goes
\* through and handle_action stands at its while loop.
DigestPetrify ==
  /\ handler = "main"
  /\ turn_count < MaxTurn
  /\ Len(world.chain) >= 1
  /\ \E r \in { PetrifyActivate(world, item_factories) } :
       /\ world' = r.w
       /\ item_factories' = r.tbl
  /\ handler' = "auto_advance"
  /\ outcome' = [op |-> "digest", actor |-> <<"player", 0>>, raised |-> FALSE, arg |-> "petrify"]
  /\ UNCHANGED <<turn_count, snapshots, just_turned_back_time, opcount, replay, forecast,
                 enemy_phase>>

\* One pass of the while loop: handle_enemy_turns(), no input read.
AutoAdvance ==
  /\ handler = "auto_advance"
  /\ AutoAdvancing(world)
  /\ \E ch \in Draws(world, Input("wait", <<0, 0>>, NoItem, <<0, 0>>, 0)) :
     \E st \in { handle_enemy_turns([w |-> world, turn |-> turn_count, snaps |-> snapshots,
                                      calls |-> 0, last |-> NoPhase], item_factories, ch) } :
       /\ DrawsMatter(world, st.w, ch)
       /\ world' = st.w
       /\ turn_count' = st.turn
       /\ snapshots' = st.snaps
       /\ enemy_phase' = st.last
  /\ outcome' = [op |-> "auto_advance", actor |-> <<"none", 0>>, raised |-> FALSE, arg |-> ""]
  /\ UNCHANGED <<item_factories, just_turned_back_time, handler, opcount, replay, forecast>>

\* The loop is left: the enemy phase of the digestion itself, update_fov(),
\* and handle_events picks the next handler.
LeaveAutoAdvance ==
  /\ handler = "auto_advance"
  /\ ~AutoAdvancing(world)
  /\ \E ch \in Draws(world, Input("wait", <<0, 0>>, NoItem, <<0, 0>>, 0)) :
     \E st \in { handle_enemy_turns([w |-> world, turn |-> turn_count, snaps |-> snapshots,
                                      calls |-> 0, last |-> NoPhase], item_factories, ch) } :
       /\ DrawsMatter(world, st.w, ch)
       /\ world' = update_fov(st.w)
       /\ turn_count' = st.turn
       /\ snapshots' = st.snaps
       /\ enemy_phase' = st.last
       /\ handler' = IF st.w.alive THEN "main" ELSE "game_over"
  /\ outcome' = [op |-> "leave_auto_advance", actor |-> <<"none", 0>>, raised |-> FALSE, arg |-> ""]
  /\ UNCHANGED <<item_factories, just_turned_back_time, opcount, replay, forecast>>

NextPetrify == PetrifyPlayerStep \/ DigestPetrify \/ AutoAdvance \/ LeaveAutoAdvance

SpecPetrify == InitPetrify /\ [][NextPetrify]_vars

\* The statements of handle_action follow one another without waiting.
SpecPetrifyFair ==
  SpecPetrify /\ WF_vars(AutoAdvance) /\ WF_vars(LeaveAutoAdvance)

\* C14: while the player carries PetrifiedSnake and lives, the only steps
\* are enemy phases run without input; each completed one takes 1 off the
\* status, and the loop always ends: the status is gone or the player dead.
C14_AutoAdvanceEnds ==
  /\ [][(handler = "auto_advance" /\ AutoAdvancing(world)) =>
         /\ outcome'.op = "auto_advance"
         /\ world'.alive => (turn_count' = turn_count + 1
                              /\ PetrifiedFor(world') = PetrifiedFor(world) - 1)]_vars
  /\ (handler = "auto_advance" /\ AutoAdvancing(world)) ~> ~AutoAdvancing(world)

\* The loop has run more than once and has been left with the player alive.
C14_Witness ==
  /\ outcome.op = "leave_auto_advance"
  /\ world.alive
  /\ turn_count >= PetrifyDuration + 1
  /\ ~HasKind(world.statuses, "PetrifiedSnake")

(***************************************************************************)
(* The bump specification: the player and the enemies perform BumpActions  *)
(* in any interleaving, one perform() per step.                            *)
(***************************************************************************)
\* A BumpAction that attacks whoever bumps.
BumpAttacksForAll(w, a, dest) == get_blocking_entity_at_location(w, dest)

\* BumpAction.perform, the condition under which it hands over to MeleeAction.
BumpAttacks(w, a, dest) == get_blocking_entity_at_location(w, dest) /\ a[1] # "player"

\* BumpAction.perform of actor a towards d.
BumpAction(w, tbl, a, d, t, ord, cg) ==
  IF BumpAttacks(w, a, Plus(ActorXY(w, a), d))
  THEN MeleeAction(w, tbl, a[2], t, cg[CHOOSE e \in EnemyIds : TRUE])
  ELSE IF a[1] = "player" THEN PlayerMovementAction(w, tbl, d, ord, cg)
  ELSE EnemyMovementAction(w, tbl, a[2], d)

InitBump == world = World0 /\ InitCommon

\* The step in which actor a performed a BumpAction towards d.
Bumped(a, d) ==
  /\ opcount < MaxActs
  /\ opcount' = opcount + 1
  /\ world.alive
  /\ LET dest == Plus(ActorXY(world, a), d) IN
     \E t \in MeleeTargets(world, dest) :
     \E ord \in Orders(IF a[1] = "player" THEN ItemsAt(world, dest) ELSE {}) :
     \E cg \in { f \in [EnemyIds -> Consonants] : \A e, e2 \in EnemyIds : f[e] = f[e2] } :
     \E r \in { BumpAction(world, item_factories, a, d, t, ord, cg) } :
       /\ world' = r.w
       /\ item_factories' = r.tbl
       /\ outcome' = [op |-> "bump", actor |-> a, raised |-> r.raised,
                      arg |-> IF BumpAttacks(world, a, dest) THEN "melee" ELSE "movement",
                      dest |-> dest]
  /\ UNCHANGED <<turn_count, snapshots, just_turned_back_time, handler, replay, forecast,
                 enemy_phase>>

PlayerBump == \E d \in DIRECTIONS : Bumped(<<"player", 0>>, d)

EnemyBump ==
  \E e \in EnemyIds, d \in DIRECTIONS : world.enemy[e].on_map /\ Bumped(<<"enemy", e>>, d)

NextBump == PlayerBump \/ EnemyBump

SpecBump == InitBump /\ [][NextBump]_vars

\* What a MovementAction of the actor towards dest does to world w: nothing
\* but Impossible on a tile that is not walkable, the actor on dest otherwise.
MovedOrImpossible(w, w2, a, dest, raised) ==
  IF tile_is_walkable(w, dest) THEN ~raised /\ ActorXY(w2, a) = dest
  ELSE raised /\ w2 = w

\* C15: a BumpAction is a MeleeAction exactly when the destination holds a
\* blocking entity and the actor is not the player, and a MovementAction
\* otherwise: the player bumping into a blocking entity gets Impossible and
\* nothing is damaged.
C15_BumpResolves ==
  [][outcome'.op = "bump" =>
       LET a == outcome'.actor
           dest == outcome'.dest
           blocked == get_blocking_entity_at_location(world, dest)
       IN /\ (outcome'.arg = "melee") <=> (blocked /\ a[1] # "player")
          /\ (blocked /\ a[1] # "player") =>
               (~outcome'.raised /\ ActorXY(world', a) = ActorXY(world, a))
          /\ ~(blocked /\ a[1] # "player") =>
               MovedOrImpossible(world, world', a, dest, outcome'.raised)
          /\ (blocked /\ a[1] = "player") => (outcome'.raised /\ world' = world)]_vars

\* The player has bumped into an enemy next to the head.
C15_Witness ==
  /\ outcome.op = "bump" /\ outcome.actor = <<"player", 0>>
  /\ outcome.raised
  /\ \E e \in EnemyIds : world.enemy[e].on_map /\ world.enemy[e].xy = outcome.dest

(***************************************************************************)
(* The chain specification: the player arrives on a floor with a chain one *)
(* short of full or full, gathered on the starting tile as generate_floor  *)
(* leaves it.  The player moves (picking up what lies on the tile), the    *)
(* enemy moves, and a segment carrying a ChangelingConsumable is digested  *)
(* or activated through start_activation.                                  *)
(***************************************************************************)
\* The items of this floor: those of World0, the segments of the chain and
\* the items a changeling can still turn into.
LongChainItemIds == 1 .. (NumFloorItems + NumEnemies + MaxSegments + MaxSpawned)

SegmentId(k) == NumFloorItems + NumEnemies + k

\* The floor of World0 reached with a chain of n segments.
WorldLongChain(n) ==
  [World0 EXCEPT
     !.item = [i \in LongChainItemIds |->
                 IF i \in ItemIds THEN Item0(i)
                 ELSE [xy |-> PlayerStart, solid |-> FALSE, char |-> ItemChar(i),
                       item_type |-> ItemType(i), on_map |-> i <= SegmentId(n),
                       ident |-> FALSE]],
     !.chain = [k \in 1 .. n |-> SegmentId(k)]]

\* items.insert(k, j), k counted from 0.
InsertAt(items, k, j) == SubSeq(items, 1, k) \o <<j>> \o SubSeq(items, k + 1, Len(items))

\* ChangelingConsumable.activate of segment i: a copy j of a random factory
\* (glyph g) is spawned on the segment's tile, inserted before it and made
\* solid.
ChangelingActivate(w, tbl, i, j, g) ==
  solidify([spawn(w, tbl, j, g, w.item[i].xy) EXCEPT !.chain = InsertAt(w.chain, IndexOf(w, i), j)],
           j)

\* ChangelingConsumable.start_activation: activate, consume, identify.
ChangelingStartActivation(w, tbl, i, j, g) ==
  Res(consume(ChangelingActivate(w, tbl, i, j, g), i), set_identified(w, tbl, i, TRUE),
      FALSE, FALSE)

\* The ids no entity carries yet.
FreshItemIds(w) == { j \in DOMAIN w.item : ~w.item[j].on_map /\ ~InChain(w, j) /\ j > SegmentId(0) }

\* The segments of the chain that carry a ChangelingConsumable: the first.
Changelings(w) == { i \in { SegmentId(1) } : InChain(w, i) }

InitChain ==
  /\ \E n \in {MaxSegments - 1, MaxSegments} : world = WorldLongChain(n)
  /\ InitCommon

ChainFrame(op, actor, raised, arg) ==
  /\ opcount < MaxActs
  /\ opcount' = opcount + 1
  /\ outcome' = [op |-> op, actor |-> actor, raised |-> raised, arg |-> arg]
  /\ UNCHANGED <<turn_count, snapshots, just_turned_back_time, handler, replay, forecast,
                 enemy_phase>>

ChainPlayerMove ==
  \E d \in DIRECTIONS :
    /\ world.alive
    /\ \E ord \in (IF MovementAllowed(world, Plus(world.head, d))
                   THEN Orders(ItemsAt(world, Plus(world.head, d))) ELSE { <<>> }) :
       \E r \in { PlayerMovementAction(world, item_factories, d, ord,
                                       [e \in EnemyIds |-> CanonGlyph]) } :
         /\ world' = r.w
         /\ item_factories' = r.tbl
         /\ ChainFrame("move", <<"player", 0>>, r.raised, "")

ChainEnemyMove ==
  \E e \in EnemyIds, d \in DIRECTIONS :
    /\ world.alive /\ world.enemy[e].on_map
    /\ \E r \in { EnemyMovementAction(world, item_factories, e, d) } :
         /\ world' = r.w
         /\ item_factories' = r.tbl
         /\ ChainFrame("move", <<"enemy", e>>, r.raised, "")

\* ItemAction.perform on a segment whose edible is a ChangelingConsumable.
ChainDigestChangeling ==
  \E i \in Changelings(world), g \in Consonants :
    /\ world.alive
    /\ FreshItemIds(world) # {}
    /\ world' = ChangelingActivate(world, item_factories, i,
                                   CHOOSE j \in FreshItemIds(world) : TRUE, g)
    /\ UNCHANGED item_factories
    /\ ChainFrame("digest", <<"player", 0>>, FALSE, "changeling")

\* start_activation of a segment's ChangelingConsumable.
ChainStartActivation ==
  \E i \in Changelings(world), g \in Consonants :
    /\ world.alive
    /\ FreshItemIds(world) # {}
    /\ \E r \in { ChangelingStartActivation(world, item_factories, i,
                                            CHOOSE j \in FreshItemIds(world) : TRUE, g) } :
         /\ world' = r.w
         /\ item_factories' = r.tbl
    /\ ChainFrame("start_activation", <<"player", 0>>, FALSE, "changeling")

NextChain ==
  ChainPlayerMove \/ ChainEnemyMove \/ ChainDigestChangeling \/ ChainStartActivation

SpecChain == InitChain /\ [][NextChain]_vars

\* C16: the chain never holds more than 26 segments, whatever was moved,
\* picked up or used; a step of an enemy picks nothing up; and a move of the
\* player with 26 segments in the chain picks nothing up.
C16_ChainWithinCapacity ==
  /\ [](Len(world.chain) <= MaxSegments)
  /\ [][(outcome'.op = "move" /\ outcome'.actor[1] = "enemy") =>
         world'.chain = world.chain]_vars
  /\ [][(outcome'.op = "move" /\ outcome'.actor[1] = "player"
          /\ Len(world.chain) = MaxSegments) => world'.chain = world.chain]_vars

(***************************************************************************)
(* The trapped check, under the movement specification.                    *)
(***************************************************************************)
\* No tile next to the head can be stepped on.
NoWalkableNeighbour(w) ==
  \A p \in Pos : Adjacent(p, w.head) =>
    (w.tiles[p] \notin {"floor", "stairs"} \/ BlockersAt(w, p) # {})

\* C17: after a movement of the player or of an enemy that went through,
\* the player is dead exactly when no tile adjacent to the head is walkable
\* and the head is not on the downstairs tile.
C17_TrappedExactly ==
  [][(outcome'.op = "move" /\ ~outcome'.raised) =>
       (~world'.alive <=> (NoWalkableNeighbour(world') /\ world'.head # world'.downstairs))]_vars

\* A movement has left the player dead with every neighbouring tile blocked.
C17_Witness ==
  /\ outcome.op = "move" /\ ~outcome.raised
  /\ ~world.alive
  /\ NoWalkableNeighbour(world)

(***************************************************************************)
(* The decrement of the statuses, under the status specification.          *)
(***************************************************************************)
\* The statuses of old that a completed turn leaves: those with more than 1
\* to go, in their order, each with 1 less.
LeftByTurn(old) ==
  LET kept == SelectSeq(old, LAMBDA s : s.duration - 1 >= 1)
  IN [k \in 1 .. Len(kept) |->
        [kind |-> kept[k].kind, duration |-> kept[k].duration - 1, stat |-> kept[k].stat]]

\* C18: a completed turn takes exactly 1 off every status of every actor and
\* removes a status exactly when that takes its duration below 1.
C18_DecrementedByOne ==
  [][outcome'.op = "on_turn" =>
       \A a \in Actors : StatusesOf(world', a) = LeftByTurn(StatusesOf(world, a))]_vars

\* A completed turn has removed a status of the player.
C18_Witness ==
  /\ outcome.op = "on_turn" /\ outcome.arg = "removed"
  /\ ~HasKind(world.statuses, "PetrifiedSnake")

(***************************************************************************)
(* The duration specification: the player's MIND is anything up to         *)
(* MaxForesight, and statuses are created on the player and on the enemies *)
(* by the consumables that apply them.                                     *)
(***************************************************************************)
InitDuration ==
  /\ \E m \in 0 .. MaxForesight : world = [World0 EXCEPT !.MIND = m]
  /\ InitCommon

\* The step that created a status of the kind on actor a.
Created(a, kind) ==
  /\ opcount < MaxStatusOps
  /\ opcount' = opcount + 1
  /\ ~HasKind(StatusesOf(world, a), kind)
  /\ world' = apply_status(world, a, kind, BaseDuration(kind))
  /\ outcome' = [op |-> "create_status", actor |-> a, raised |-> FALSE, arg |-> kind]
  /\ UNCHANGED <<item_factories, turn_count, snapshots, just_turned_back_time, handler, replay,
                 forecast, enemy_phase>>

CreatePlayerStatus == \E kind \in PlayerKinds : Created(<<"player", 0>>, kind)

CreateEnemyStatus ==
  \E kind \in EnemyKinds, e \in EnemyIds : world.enemy[e].on_map /\ Created(<<"enemy", e>>, kind)

NextDuration == CreatePlayerStatus \/ CreateEnemyStatus

SpecDuration == InitDuration /\ [][NextDuration]_vars

\* The status an actor got last.
Newest(w, a) == StatusesOf(w, a)[Len(StatusesOf(w, a))]

\* C19: a newly created status has no negative duration: base + MIND for a
\* beneficial effect, base - MIND and at least 0 for a detrimental one.
C19_DurationNeverNegative ==
  [][outcome'.op = "create_status" =>
       LET s == Newest(world', outcome'.actor)
           base == BaseDuration(s.kind)
       IN /\ s.duration >= 0
          /\ s.duration = IF s.kind \in BadKinds THEN Max2(base - world.MIND, 0)
                          ELSE base + world.MIND]_vars

(***************************************************************************)
(* The health specification: the actions of the action specification on a  *)
(* floor with every enemy on it, so that enemies hit one another, are hit  *)
(* by what the player spits and are constricted.                           *)
(***************************************************************************)
InitHealth == world = WorldAllEnemies /\ InitCommon

SpecHealth == InitHealth /\ [][NextAct]_vars

\* C20: the health digit (and the base digit) of an enemy on the map is
\* never negative: damage that would take it below 0 removes the enemy.
C20_HealthDigitNotNegative ==
  \A e \in EnemyIds :
    world.enemy[e].on_map => (world.enemy[e].char >= 0 /\ world.enemy[e].base_char >= 0)

\* An enemy lives on with a lowered digit while another has died of damage
\* and left its corpse.
C20_Witness ==
  /\ \E e \in EnemyIds : world.enemy[e].on_map /\ world.enemy[e].char < EnemyChar(e)
  /\ \E e \in EnemyIds : ~world.enemy[e].on_map /\ world.item[CorpseId(e)].on_map

(***************************************************************************)
(* The word specification: the player walks over the items of the floor,   *)
(* picking them up, and digests segments that carry a ClingyConsumable.    *)
(***************************************************************************)
\* ClingyConsumable.activate of a segment that is not the first of the
\* chain: it changes places with the segment before it, in the chain and
\* on the map, and is made solid.
ClingyActivate(w, i) ==
  LET k == IndexOf(w, i) + 1
      o == w.chain[k - 1]
  IN solidify([w EXCEPT !.chain = [@ EXCEPT ![k - 1] = i, ![k] = o],
                        !.item[i].xy = w.item[o].xy,
                        !.item[o].xy = w.item[i].xy], i)

\* The segments whose digestion takes the swapping branch of activate.
ClingySegments(w) == { i \in DOMAIN w.item : InChain(w, i) /\ IndexOf(w, i) >= 1 }

InitWord == world = World0 /\ InitCommon

WordFrame(op, raised, arg) ==
  /\ opcount < MaxActs
  /\ opcount' = opcount + 1
  /\ outcome' = [op |-> op, actor |-> <<"player", 0>>, raised |-> raised, arg |-> arg]
  /\ UNCHANGED <<turn_count, snapshots, just_turned_back_time, handler, replay, enemy_phase>>

\* A move of the player; the pickup it ends with re-evaluates word mode.
WordPlayerMove ==
  \E d \in DIRECTIONS :
    /\ world.alive
    /\ \E ord \in (IF MovementAllowed(world, Plus(world.head, d))
                   THEN Orders(ItemsAt(world, Plus(world.head, d))) ELSE { <<>> }) :
       \E r \in { PlayerMovementAction(world, item_factories, d, ord,
                                       [e \in EnemyIds |-> CanonGlyph]) } :
         /\ world' = r.w
         /\ item_factories' = r.tbl
         /\ forecast' = [forecast EXCEPT !.word_mode =
                           IF r.raised THEN @ ELSE WordModeAfter(world, r.w, @)]
         /\ WordFrame("move", r.raised, "")

\* ItemAction.perform on a segment whose edible is a ClingyConsumable:
\* activate makes no call of check_word_mode.
WordDigestClingy ==
  \E i \in ClingySegments(world) :
    /\ world.alive
    /\ world' = ClingyActivate(world, i)
    /\ UNCHANGED <<item_factories, forecast>>
    /\ WordFrame("digest", FALSE, "clingy")

NextWord == WordPlayerMove \/ WordDigestClingy

SpecWord == InitWord /\ [][NextWord]_vars

\* C21: after every completed operation, word_mode is true exactly when the
\* chain is not empty and the glyphs of its segments, in chain order, spell
\* a word of the dictionary.
C21_WordModeTracksChain == forecast.word_mode <=> check_word_mode(world)

\* As long as no clingy segment was digested, word mode follows the chain.
WordModeTracksPickups ==
  [][(outcome'.op = "move" /\ (forecast.word_mode <=> check_word_mode(world)))
       => (forecast'.word_mode <=> check_word_mode(world'))]_vars

(***************************************************************************)
(* The id specification.  Here world holds the ids only: game_map._next_id,*)
(* the entities lying or standing on the floor (ground), the segments of   *)
(* the chain, and the floor number; an entity is its id and, to tell the   *)
(* entities apart whatever their ids, the number uid of its spawn in the   *)
(* run, of which spawned is the count so far.  Entities are                *)
(* spawned, picked up and removed; the player descends; turns end with a   *)
(* snapshot and a rewind installs one.                                     *)
(***************************************************************************)
\* The counter stops here.
MaxId == 4

\* The number of entities spawned in a run stops here.
MaxUid == 5

\* The glyphs of the id specification.
IdGlyphs == {"a", "b"}

\* GameMap.__init__: _next_id = 1, no entity yet.  identified is the set of
\* the glyphs whose entry of game_map.item_factories is identified.  floor is
\* game_map.floor_number, current_floor is game_world.current_floor.
IdWorld0 ==
  [next_id |-> 1, ground |-> <<>>, chain |-> <<>>, floor |-> 1, current_floor |-> 1,
   identified |-> {}, spawned |-> 0]

\* GameMap.next_id: the counter is incremented and its new value returned.
next_id(w) == w.next_id + 1

\* Entity.spawn: the copy takes gamemap.next_id and joins the entity set.
SpawnWithId(w) ==
  [w EXCEPT !.next_id = next_id(w), !.spawned = @ + 1,
            !.ground = Append(@, [id |-> next_id(w), uid |-> w.spawned + 1])]

\* place_entities: k entities are spawned on the map.
RECURSIVE place_entities(_, _)
place_entities(w, k) ==
  IF k = 0 \/ w.next_id >= MaxId \/ w.spawned >= MaxUid THEN w
  ELSE place_entities(SpawnWithId(w), k - 1)

\* GameWorld.generate_floor and generate_dungeon: current_floor += 1, then a
\* new GameMap with floor_number = current_floor, whose entities are the
\* player and the segments of the chain, then the rooms with their monsters
\* and items.
generate_dungeon_ids(w, k) ==
  place_entities([w EXCEPT !.next_id = IdWorld0.next_id, !.ground = <<>>,
                           !.current_floor = @ + 1, !.floor = w.current_floor + 1], k)

Range(s) == { s[i] : i \in DOMAIN s }

\* The sequence without its k-th element.
RemoveAt(s, k) == SubSeq(s, 1, k - 1) \o SubSeq(s, k + 1, Len(s))

\* A restore that installs the snapshot as it was stored.
RestoreIdsForgetting(w, snap) == snap

\* Engine.turn_back_time: the map and the player of the snapshot, with the
\* _next_id and the item_factories of the current map; engine.game_world is
\* not touched.
RestoreIds(w, snap) ==
  [snap EXCEPT !.next_id = w.next_id, !.identified = w.identified, !.spawned = w.spawned,
               !.current_floor = w.current_floor]

\* "for i in [e for e in self.game_map.entities if e.id == turner.id]": the
\* entities of the installed map that carry the turner's id are consumed,
\* those of the chain and those of the floor.
ConsumeTurner(w, turner) ==
  [w EXCEPT !.ground = SelectSeq(@, LAMBDA e : e.id # turner.id),
            !.chain = SelectSeq(@, LAMBDA e : e.id # turner.id)]

\* for i in reversed(range(turn, self.turn_count)): snapshot i is installed.
RECURSIVE RestoreIdsLoop(_, _, _, _)
RestoreIdsLoop(w, snaps, turn, i) ==
  IF i < turn THEN w ELSE RestoreIdsLoop(RestoreIds(w, snaps[i]), snaps, turn, i - 1)

InitIds ==
  /\ \E k \in 0 .. MaxSpawned : world = place_entities(IdWorld0, k)
  /\ InitCommon

IdFrame(op, arg) ==
  /\ opcount < MaxActs
  /\ opcount' = opcount + 1
  /\ outcome' = [op |-> op, actor |-> <<"player", 0>>, raised |-> FALSE, arg |-> arg]
  /\ UNCHANGED <<item_factories, just_turned_back_time, handler, replay, forecast, enemy_phase>>

\* A spawn during play (a corpse, a decoy, the item of a changeling).
IdSpawn ==
  /\ world.next_id < MaxId /\ world.spawned < MaxUid
  /\ world' = SpawnWithId(world)
  /\ UNCHANGED <<turn_count, snapshots>>
  /\ IdFrame("spawn", "")

\* PickupAction: an item of the floor joins the chain.
IdPickup ==
  \E k \in 1 .. Len(world.ground) :
    /\ Len(world.chain) < MaxSegments
    /\ world' = [world EXCEPT !.ground = RemoveAt(@, k), !.chain = Append(@, world.ground[k])]
    /\ UNCHANGED <<turn_count, snapshots>>
    /\ IdFrame("pickup", "")

\* An entity of the floor dies or is consumed: it leaves the entity set.
IdRemove ==
  \E k \in 1 .. Len(world.ground) :
    /\ world' = [world EXCEPT !.ground = RemoveAt(@, k)]
    /\ UNCHANGED <<turn_count, snapshots>>
    /\ IdFrame("remove", "")

\* TakeStairsAction: the next floor is generated.
IdDescend ==
  \E k \in 0 .. MaxSpawned :
    /\ world.current_floor < MaxFloor
    /\ world' = generate_dungeon_ids(world, k)
    /\ UNCHANGED <<turn_count, snapshots>>
    /\ IdFrame("stairs", "")

\* The end of a turn: the counter of turns and the snapshot.
IdTurnEnds ==
  /\ turn_count < MaxTurn
  /\ turn_count' = turn_count + 1
  /\ snapshots' = Append(snapshots, world)
  /\ UNCHANGED world
  /\ IdFrame("turn", "")

\* A glyph is identified (a segment is digested or spat).
IdIdentify ==
  \E g \in IdGlyphs :
    /\ g \notin world.identified
    /\ world' = [world EXCEPT !.identified = @ \cup {g}]
    /\ outcome' = [op |-> "identify", actor |-> <<"player", 0>>, raised |-> FALSE,
                   arg |-> ""]
    /\ UNCHANGED <<turn_count, snapshots, opcount, item_factories, just_turned_back_time,
                   handler, replay, forecast, enemy_phase>>

\* Engine.turn_back_time by turns turns, the turner being segment k of the
\* chain and carrying glyph g: the snapshots are installed from the newest
\* to the target turn, the turner is identified and the entities with its
\* id are consumed.  The ghost keeps the world before the rewind, the
\* turner, its glyph and the world the loop installed.
IdRewind ==
  \E turns \in 1 .. MaxTurn, g \in IdGlyphs, k \in 1 .. Len(world.chain) :
    /\ turn_count >= 2
    /\ \E r \in { RestoreIdsLoop(world, snapshots, RewindTarget(turn_count, turns),
                                  turn_count - 1) } :
         /\ world' = [ConsumeTurner(r, world.chain[k]) EXCEPT !.identified = @ \cup {g}]
         /\ IdFrame("rewind", [before |-> world, turner |-> world.chain[k], glyph |-> g,
                               installed |-> r])
    /\ UNCHANGED <<turn_count, snapshots>>

NextIds ==
  IdSpawn \/ IdPickup \/ IdRemove \/ IdDescend \/ IdTurnEnds \/ IdRewind \/ IdIdentify

SpecIds == InitIds /\ [][NextIds]_vars

\* The ids of the live entities, the player aside.
LiveIds(w) == w.ground \o w.chain

NoSharedId(w) ==
  \A a, b \in 1 .. Len(LiveIds(w)) : a # b => LiveIds(w)[a].id # LiveIds(w)[b].id

\* C22: at every point of a run, after a descent and after a rewind as
\* well, no two live entities share an id (so the counter never hands out
\* an id that a live entity already has).
C22_IdsUnique == NoSharedId(world)

\* C31: a rewind keeps the id counter and the identity table of the current
\* run: after turn_back_time the next-id value of the restored map is the
\* one before the rewind, and every glyph identified before the rewind is
\* still identified, also when it was identified after the target turn.
C31_RewindKeepsCounterAndTable ==
  [][outcome'.op = "rewind" =>
       /\ world'.next_id = world.next_id
       /\ world.identified \subseteq world'.identified]_vars

\* A rewind has installed a snapshot whose counter was lower and in which a
\* glyph was not yet identified that was identified before the rewind.
C31_Witness ==
  /\ outcome.op = "rewind"
  /\ \E t \in 1 .. turn_count - 1 :
       /\ snapshots[t].next_id < world.next_id
       /\ \E g \in outcome.arg.before.identified : g \notin snapshots[t].identified
       /\ outcome.arg.installed.ground = snapshots[t].ground
       /\ outcome.arg.installed.chain = snapshots[t].chain
       /\ outcome.arg.installed.chain # outcome.arg.before.chain

\* C32: after a rewind the item that triggered it is identified and is
\* neither in the chain of the restored player nor on the restored floor,
\* and the clean-up of the rewind removes no entity but that item.
C32_RewindRemovesOnlyTurner ==
  outcome.op = "rewind" =>
    /\ outcome.arg.glyph \in world.identified
    /\ \A e \in Range(LiveIds(world)) : e.uid # outcome.arg.turner.uid
    /\ \A e \in Range(LiveIds(outcome.arg.installed)) :
         e.uid # outcome.arg.turner.uid => e \in Range(LiveIds(world))

\* After a rewind the triggering item is identified and gone.
RewindRemovesTurner ==
  outcome.op = "rewind" =>
    /\ outcome.arg.glyph \in world.identified
    /\ \A e \in Range(LiveIds(world)) : e.uid # outcome.arg.turner.uid

\* As long as the installed map holds no other entity with the turner's id,
\* the clean-up removes the turner only.
RewindRemovesOnlyTurnerWithoutClash ==
  (outcome.op = "rewind"
     /\ \A e \in Range(LiveIds(outcome.arg.installed)) :
          e.id = outcome.arg.turner.id => e.uid = outcome.arg.turner.uid)
    => \A e \in Range(LiveIds(outcome.arg.installed)) :
         e.uid # outcome.arg.turner.uid => e \in Range(LiveIds(world))

\* C40: the world's current floor number (game_world.current_floor) always
\* equals the floor number of the engine's current map, also after a rewind
\* to a turn before the latest descent.
C40_FloorNumbersAgree == world.current_floor = world.floor

\* A descent leaves the two floor numbers equal, whatever they were.
DescentMakesFloorNumbersAgree ==
  [][outcome'.op = "stairs" =>
       /\ world'.current_floor = world.current_floor + 1
       /\ world'.floor = world'.current_floor]_vars

\* A rewind that stays on the floor keeps the two floor numbers equal.
RewindOnTheFloorKeepsFloorNumbers ==
  (outcome.op = "rewind" /\ outcome.arg.installed.floor = outcome.arg.before.floor
     /\ outcome.arg.before.floor = outcome.arg.before.current_floor)
    => world.current_floor = world.floor

(***************************************************************************)
(* The grid specification: the inputs of the turn specification, rewinds   *)
(* among them, and the digestion of a segment that carries a               *)
(* MappingConsumable.                                                      *)
(***************************************************************************)
\* ItemAction.perform on a segment whose edible is a MappingConsumable,
\* handled from perform() to update_fov().
MapInput ==
  /\ handler = "main"
  /\ replay.mode = "play"
  /\ turn_count < MaxTurn
  /\ \E k \in 1 .. Len(world.chain) :
     \E inp \in { Input("map", <<0, 0>>, world.chain[k], <<0, 0>>, 0) } :
     \E ch \in Draws(world, inp) :
     \E r \in { handle_action(world, item_factories, snapshots, turn_count, inp, ch) } :
       /\ DrawsMatter(world, r.w, ch)
       /\ Handled(r, inp)
       /\ replay' = [replay EXCEPT !.phases = replay.phases + r.phases]

NextGrid == PlayerInput \/ MapInput

SpecGrid == InitTurn /\ [][NextGrid]_vars

\* The step is a rewind, completed or broken off.
RewindStep == (replay.mode = "play" /\ replay'.mode # "play") \/ outcome'.arg = "error"

\* C23 as stated: within one floor a tile that is true in visible, explored
\* or mapped is still true in that grid after every later operation.
C23_GridsOnlyGrow ==
  [][world'.floor = world.floor =>
       /\ world.visible \subseteq world'.visible
       /\ world.explored \subseteq world'.explored
       /\ world.mapped \subseteq world'.mapped]_vars

\* C23, amended: within one floor explored and mapped only grow over every
\* operation that is no rewind; visible is the field of view of the latest
\* completed player action, a part of explored.
C23_ExploredAndMappedOnlyGrow ==
  [][/\ (world'.floor = world.floor /\ ~RewindStep) =>
          /\ world.explored \subseteq world'.explored
          /\ world.mapped \subseteq world'.mapped
     /\ (~outcome'.raised /\ outcome'.arg # "error") =>
          /\ world'.visible = fov(world'.head)
          /\ world'.visible \subseteq world'.explored]_vars

\* Explored without the exception for rewinds.
ExploredGrowsOverRewinds ==
  [][world'.floor = world.floor => world.explored \subseteq world'.explored]_vars

\* The floor was mapped, and the player has since walked away from a tile
\* that is explored and no longer visible.
C23_Witness ==
  /\ world.mapped # {}
  /\ outcome.op = "move" /\ ~outcome.raised
  /\ world.floor = 1
  /\ \E p \in world.explored : p \notin world.visible /\ p \notin fov(PlayerStart)

(***************************************************************************)
(* Dungeon generation (procgen).  A room is the rectangle x1..x2, y1..y2;  *)
(* an ooze juice or an ooze factor is "one", "zero" or "part" (a number    *)
(* strictly between); a call of random is a choice among its outcomes.     *)
(***************************************************************************)
\* The sides of the map and the largest room_max_size of the room
\* specification.
GenW == 5

GenH == 5

MaxRoomSize == 3

Rect(x1, x2, y1, y2) == [x1 |-> x1, x2 |-> x2, y1 |-> y1, y2 |-> y2]

\* RectangularRoom.width, RectangularRoom.height
width(r) == r.x2 - r.x1

height(r) == r.y2 - r.y1

\* An intersection test that never finds an intersection.
WouldNeverIntersect(r, other) == FALSE

\* RectangularRoom.would_intersect
would_intersect(r, other) ==
  r.x1 < other.x2 /\ r.x2 > other.x1 /\ r.y1 < other.y2 /\ r.y2 > other.y1

\* RectangularRoom.intersects
intersects(r, other) ==
  r.x1 < other.x2 /\ r.x2 > other.x1 /\ r.y1 < other.y2 /\ r.y2 > other.y1

\* The product of two juices.
Times(j, f) ==
  IF j = "zero" \/ f = "zero" THEN "zero"
  ELSE IF j = "one" /\ f = "one" THEN "one" ELSE "part"

\* The outcomes of random.random() > juice: random() lies in [0, 1).
Exceeds(j) == IF j = "one" THEN {FALSE} ELSE BOOLEAN

\* A depletion that leaves the juice as it is.
DepleteKeeping(j, f, over) == j

\* "deplete the ooze": the juice is zeroed when the draw exceeds it, then
\* multiplied by the ooze factor.
deplete(j, f, over) == Times(IF over THEN "zero" ELSE j, f)

GrowthDirs == { <<0, -1>>, <<0, 1>>, <<-1, 0>>, <<1, 0>> }

\* The rectangle grown by one tile in direction d.
Grow(r, d) ==
  Rect(IF d[1] > -1 THEN r.x1 ELSE r.x1 - 1, IF d[1] < 1 THEN r.x2 ELSE r.x2 + 1,
       IF d[2] > -1 THEN r.y1 ELSE r.y1 - 1, IF d[2] < 1 THEN r.y2 ELSE r.y2 + 1)

\* A direction the loop over the four directions does not skip: g is the
\* room under construction with its juices, its door direction, the rooms
\* placed so far and the parameters of the generation.
GrowthAllowed(g, d) ==
  /\ <<d[1] + g.dir[1], d[2] + g.dir[2]>> # <<0, 0>>
  /\ ~(d[1] # 0 /\ g.juice[1] = "zero")
  /\ ~(d[2] # 0 /\ g.juice[2] = "zero")
  /\ ~(d[1] < 0 /\ g.room.x1 < 1)
  /\ ~(d[1] > 0 /\ g.room.x2 >= g.par.map_width - 1)
  /\ ~(d[2] < 0 /\ g.room.y1 < 1)
  /\ ~(d[2] > 0 /\ g.room.y2 >= g.par.map_height - 1)
  /\ \A other \in g.rooms : ~would_intersect(Grow(g.room, d), other)

\* "collect possible growth directions"
growths(g) == { Grow(g.room, d) : d \in { e \in GrowthDirs : GrowthAllowed(g, e) } }

\* "while there's room to grow"
RoomToGrow(g) ==
  width(g.room) < g.par.room_max_size /\ height(g.room) < g.par.room_max_size

\* One turn of the loop with the growth chosen and the two draws.
GrowStep(g, growth, over_x, over_y) ==
  [g EXCEPT
     !.room = growth,
     !.juice =
        << IF (growth.x1 # g.room.x1 \/ growth.x2 # g.room.x2)
              /\ width(growth) >= g.par.room_min_size
           THEN deplete(g.juice[1], g.par.ooze_factor, over_x) ELSE g.juice[1],
           IF (growth.y1 # g.room.y1 \/ growth.y2 # g.room.y2)
              /\ height(growth) >= g.par.room_min_size
           THEN deplete(g.juice[2], g.par.ooze_factor, over_y) ELSE g.juice[2] >>]

\* RectangularRoom.__init__ before its loop.
NewRoom(x, y, dir, rooms, par) ==
  [pc |-> "growing", room |-> Rect(x, x, y, y), juice |-> <<"one", "one">>,
   dir |-> dir, rooms |-> rooms, par |-> par]

\* The parameters of the room specification.
RoomPars ==
  { [map_width |-> GenW, map_height |-> GenH, room_max_size |-> mx,
     room_min_size |-> mn, ooze_factor |-> f] :
      mx \in 2 .. MaxRoomSize, mn \in 1 .. 2, f \in {"zero", "part", "one"} }

\* The rooms already placed: none, or one in a corner of the map.
RoomNeighbours == { {}, { Rect(0, 2, 0, 2) } }

GenFrame ==
  UNCHANGED <<item_factories, turn_count, snapshots, just_turned_back_time, handler,
              outcome, opcount, replay, forecast, enemy_phase>>

(***************************************************************************)
(* The room specification: one RectangularRoom is grown, from any seed     *)
(* tile, with any door direction.  Here world is the room being built.     *)
(***************************************************************************)
InitRoom ==
  /\ \E x \in 0 .. GenW - 1, y \in 0 .. GenH - 1, dir \in GrowthDirs \cup { <<0, 0>> },
        rooms \in RoomNeighbours, par \in RoomPars :
       /\ \A other \in rooms : ~would_intersect(Rect(x, x, y, y), other)
       /\ world = NewRoom(x, y, dir, rooms, par)
  /\ InitCommon

\* One turn of the loop that grows the room.
RoomGrows ==
  /\ world.pc = "growing"
  /\ RoomToGrow(world)
  /\ \E growth \in growths(world), over_x \in Exceeds(world.juice[1]),
        over_y \in Exceeds(world.juice[2]) :
       world' = GrowStep(world, growth, over_x, over_y)
  /\ GenFrame

\* The loop is left: no room to grow, or no growth possible.
RoomStops ==
  /\ world.pc = "growing"
  /\ ~RoomToGrow(world) \/ growths(world) = {}
  /\ world' = [world EXCEPT !.pc = "grown"]
  /\ GenFrame

NextRoom == RoomGrows \/ RoomStops

SpecRoom == InitRoom /\ [][NextRoom]_vars

GrowthsAlong(g, a) ==
  { Grow(g.room, d) : d \in { e \in GrowthDirs : e[a] # 0 /\ GrowthAllowed(g, e) } }

\* C28: a room grown with ooze factor 1 stops only when room_max_size is
\* reached on both axes or nothing lets it grow: it never stops with one
\* axis below room_max_size that can still grow.
C28_GrowsUntilBothAxesFull ==
  (world.pc = "grown" /\ world.par.ooze_factor = "one") =>
    /\ width(world.room) >= world.par.room_max_size \/ GrowthsAlong(world, 1) = {}
    /\ height(world.room) >= world.par.room_max_size \/ GrowthsAlong(world, 2) = {}

\* With ooze factor 1 the room stops only at room_max_size on one of the
\* axes or when nothing lets it grow.
GrowsUntilOneAxisFull ==
  (world.pc = "grown" /\ world.par.ooze_factor = "one") =>
    \/ width(world.room) >= world.par.room_max_size
    \/ height(world.room) >= world.par.room_max_size
    \/ growths(world) = {}

(***************************************************************************)
(* The vault specification: a room is grown as above; generate_dungeon     *)
(* discards it when it is too small, and otherwise keeps it as a room or   *)
(* makes it a vault, which vaultify first tries to move.                    *)
(***************************************************************************)
\* The outcomes of random.random() < chance.
Below(c) == IF c = "zero" THEN {FALSE} ELSE IF c = "one" THEN {TRUE} ELSE BOOLEAN

\* The rectangle moved by one tile in direction d.
Shift(r, d) == Rect(r.x1 + d[1], r.x2 + d[1], r.y1 + d[2], r.y2 + d[2])

\* The moves vaultify collects: inside the map, clear of every room.
moves(g) ==
  { Shift(g.room, d) :
      d \in { e \in GrowthDirs :
                /\ ~(Shift(g.room, e).x1 < 0 \/ Shift(g.room, e).y1 < 0)
                /\ ~(Shift(g.room, e).x2 >= g.par.map_width)
                /\ ~(Shift(g.room, e).y2 >= g.par.map_height)
                /\ \A other \in g.rooms : ~would_intersect(Shift(g.room, e), other) } }

\* One turn of the loop of vaultify with the move chosen and the draw.
MoveStep(g, move, over) ==
  [g EXCEPT !.room = move, !.vault_juice = deplete(@, g.par.ooze_factor, over)]

VaultPars ==
  { [map_width |-> GenW, map_height |-> GenH, room_max_size |-> mx,
     room_min_size |-> mn, ooze_factor |-> f, vault_chance |-> c] :
      mx \in 2 .. MaxRoomSize, mn \in 1 .. 2, f \in {"zero", "part", "one"},
      c \in {"zero", "part", "one"} }

InitVault ==
  /\ \E x \in 0 .. GenW - 1, y \in 0 .. GenH - 1, dir \in GrowthDirs \cup { <<0, 0>> },
        rooms \in RoomNeighbours, par \in VaultPars :
       /\ \A other \in rooms : ~would_intersect(Rect(x, x, y, y), other)
       /\ world = NewRoom(x, y, dir, rooms, par)
  /\ InitCommon

\* "if room.width < room_min_size or room.height < room_min_size: continue"
TooSmall(g) ==
  width(g.room) < g.par.room_min_size \/ height(g.room) < g.par.room_min_size

RoomDiscarded ==
  /\ world.pc = "grown"
  /\ TooSmall(world)
  /\ world' = [world EXCEPT !.pc = "discarded"]
  /\ GenFrame

\* The first room (no door direction) is never a vault; another room is one
\* when random.random() < vault_chance.
RoomKept ==
  /\ world.pc = "grown"
  /\ ~TooSmall(world)
  /\ world.dir = <<0, 0>> \/ FALSE \in Below(world.par.vault_chance)
  /\ world' = [world EXCEPT !.pc = "placed"]
  /\ GenFrame

\* vaultify is entered with its juice at 1.
VaultBegins ==
  /\ world.pc = "grown"
  /\ ~TooSmall(world)
  /\ world.dir # <<0, 0>> /\ TRUE \in Below(world.par.vault_chance)
  /\ world' = [pc |-> "moving", room |-> world.room, vault_juice |-> "one",
               juice |-> world.juice, dir |-> world.dir, rooms |-> world.rooms,
               par |-> world.par]
  /\ GenFrame

\* "while ooze_juice == 1": one move.
VaultMoves ==
  /\ world.pc = "moving"
  /\ world.vault_juice = "one"
  /\ \E move \in moves(world), over \in Exceeds(world.vault_juice) :
       world' = MoveStep(world, move, over)
  /\ GenFrame

\* The loop of vaultify is left: the juice is no longer 1, or no move is
\* possible.
VaultStops ==
  /\ world.pc = "moving"
  /\ world.vault_juice # "one" \/ moves(world) = {}
  /\ world' = [world EXCEPT !.pc = "moved"]
  /\ GenFrame

NextVault ==
  \/ RoomGrows \/ RoomStops \/ RoomDiscarded \/ RoomKept
  \/ VaultBegins \/ VaultMoves \/ VaultStops

SpecVault == InitVault /\ [][NextVault]_vars

\* Every loop turn that can be taken is taken.
SpecVaultFair == SpecVault /\ WF_vars(NextVault)

\* C24: the inner loops of the generation terminate for every ooze factor
\* in [0, 1]: a room that is being grown and moved is eventually discarded,
\* placed as a room, or done moving as a vault.
C24_InnerLoopsTerminate ==
  <>(world.pc \in {"discarded", "placed", "moved"})

\* The growth loop terminates for every ooze factor.
GrowthTerminates == <>(world.pc # "growing")

\* The relocation loop terminates when the ooze factor is below 1.
RelocationTerminatesBelowOne ==
  (world.par.ooze_factor # "one") => <>(world.pc \in {"discarded", "placed", "moved"})

\* With an ooze factor below 1 a vault moves at most once.
VaultMovesOnceBelowOne ==
  [][(world.pc = "moving" /\ world'.pc = "moving" /\ world.par.ooze_factor # "one")
       => world'.vault_juice # "one"]_vars

(***************************************************************************)
(* The dungeon specification: generate_dungeon places rooms, vaults and    *)
(* the tunnels of the vaults, one attempt of its loop per step, and then   *)
(* the stairs or the boss.  Here world is the dungeon under construction:  *)
(* rooms and vaults are the two lists of generate_dungeon (rooms holds the *)
(* tunnels too), placed the rooms and vaults in the order of their         *)
(* placement, tiles the tile grid.                                         *)
(***************************************************************************)
DunW == 7

DunH == 8

MaxRooms == 3

\* The cap on the attempts of the placement loop (1000 in the source).
MaxAttempts == 3

FinalFloor == 10

DunPos == (0 .. DunW - 1) \X (0 .. DunH - 1)

\* RectangularRoom.has_tile
has_tile(r, t) == r.x1 <= t[1] /\ r.x2 >= t[1] /\ r.y1 <= t[2] /\ r.y2 >= t[2]

\* RectangularRoom.center
center(r) == << (r.x1 + r.x2) \div 2, (r.y1 + r.y2) \div 2 >>

\* RectangularRoom.inner, as the set of tiles the two slices select.
inner(r) ==
  { t \in DunPos : r.x1 + 1 <= t[1] /\ t[1] < r.x2 /\ r.y1 + 1 <= t[2] /\ t[2] < r.y2 }

\* The rooms the constructor can return: every way through its loop.
RECURSIVE Grown(_)
Grown(g) ==
  IF ~RoomToGrow(g) \/ growths(g) = {} THEN { g.room }
  ELSE UNION { Grown(GrowStep(g, growth, o[1], o[2])) :
                 growth \in growths(g),
                 o \in Exceeds(g.juice[1]) \X Exceeds(g.juice[2]) }

\* The rectangles the relocation loop of vaultify can end with.
RECURSIVE Relocated(_)
Relocated(g) ==
  IF g.vault_juice # "one" \/ moves(g) = {} THEN { g.room }
  ELSE UNION { Relocated(MoveStep(g, move, over)) :
                 move \in moves(g), over \in Exceeds(g.vault_juice) }

Min(S) == CHOOSE m \in S : \A n \in S : m <= n

Max(S) == CHOOSE m \in S : \A n \in S : m >= n

\* Tunnel.__init__: the rectangle one tile around the tiles of the tunnel.
Tunnel(cells) ==
  Rect(Min({ c[1] : c \in cells }) - 1, Max({ c[1] : c \in cells }) + 1,
       Min({ c[2] : c \in cells }) - 1, Max({ c[2] : c \in cells }) + 1)

\* "x > room.x2 or x < room.x1" (a = 1), "y > room.y2 or y < room.y1" (a = 2)
Off(p, a, room) ==
  IF a = 1 THEN p[1] > room.x2 \/ p[1] < room.x1 ELSE p[2] > room.y2 \/ p[2] < room.y1

Along(p, a, dlt) == IF a = 1 THEN <<p[1] + dlt, p[2]>> ELSE <<p[1], p[2] + dlt>>

Hits(p, all) == \E r \in all : has_tile(r, p)

\* The first loop of a tunnel: from p along axis a towards room; the tile
\* is appended before the step, and the last tile after the loop.
RECURSIVE Walk1(_, _, _, _, _, _)
Walk1(p, a, dlt, room, all, cells) ==
  IF ~Off(p, a, room) THEN [cells |-> cells \cup {p}, end |-> p]
  ELSE IF Hits(Along(p, a, dlt), all)
       THEN [cells |-> cells \cup {p, Along(p, a, dlt)}, end |-> Along(p, a, dlt)]
       ELSE Walk1(Along(p, a, dlt), a, dlt, room, all, cells \cup {p})

\* The second loop of a tunnel: the tile is appended after the step.
RECURSIVE Walk2(_, _, _, _, _, _)
Walk2(p, a, dlt, room, all, cells) ==
  IF ~Off(p, a, room) THEN cells
  ELSE IF Hits(Along(p, a, dlt), all) THEN cells \cup {Along(p, a, dlt)}
       ELSE Walk2(Along(p, a, dlt), a, dlt, room, all, cells \cup {Along(p, a, dlt)})

\* The tunnels made of the tiles of the two loops.
TunnelsOf(w1, cells2) ==
  <<Tunnel(w1.cells)>> \o (IF cells2 = {} THEN <<>> ELSE <<Tunnel(cells2)>>)

\* dx and dy of vaultify: where room lies seen from the vault v.
TunnelDx(v, room) ==
  (IF room.x2 < v.x1 THEN -1 ELSE 0) + (IF room.x1 > v.x2 THEN 1 ELSE 0)

TunnelDy(v, room) ==
  (IF room.y2 < v.y1 THEN -1 ELSE 0) + (IF room.y1 > v.y2 THEN 1 ELSE 0)

\* The tiles random.choice can take as the start of the tunnel: first = TRUE
\* for the branch that leaves by the top or the bottom edge.
TunnelStarts(v, room, first) ==
  LET dx == TunnelDx(v, room)
      dy == TunnelDy(v, room)
  IN IF first
     THEN { <<x, IF dy < 0 THEN v.y1 ELSE v.y2>> :
              x \in IF dx # 0 THEN v.x1 .. v.x2 - 1
                    ELSE Max({v.x1, room.x1}) .. Min({v.x2, room.x2}) }
     ELSE { <<IF dx < 0 THEN v.x1 ELSE v.x2, y>> :
              y \in IF dy # 0 THEN v.y1 .. v.y2 - 1
                    ELSE Max({v.y1, room.y1}) .. Min({v.y2, room.y2}) }

\* One turn of the loop "for room in tunnel_to" for the vault v with door
\* door: the door and the tunnels after it, for the branch and the start
\* tile drawn.  No tunnels: the loop goes on with the next room.
TunnelTo(v, door, room, all, first, start) ==
  LET dx == TunnelDx(v, room)
      dy == TunnelDy(v, room)
  IN IF first
     THEN IF Hits(door, all) THEN [door |-> door, tunnels |-> <<>>]
          ELSE Bind(Walk1(start, 2, dy, room, all, {}), LAMBDA w1 :
                 [door |-> door,
                  tunnels |-> TunnelsOf(w1, Walk2(w1.end, 1, dx, room, all, {}))])
     ELSE IF Hits(start, all) THEN [door |-> start, tunnels |-> <<>>]
          ELSE Bind(Walk1(start, 1, dx, room, all, {}), LAMBDA w1 :
                 [door |-> start,
                  tunnels |-> TunnelsOf(w1, Walk2(w1.end, 2, dy, room, all, {}))])

\* The branches the test of vaultify can take for a room: the first when
\* the room lies straight above or below, either when it lies diagonally,
\* the second when it lies straight to the left or the right.
TunnelBranches(v, room) ==
  IF TunnelDx(v, room) = 0 THEN {TRUE}
  ELSE IF TunnelDy(v, room) # 0 THEN BOOLEAN ELSE {FALSE}

\* "tunnel to a room": the doors and tunnels the loop over the shuffled
\* rooms can end with, left the rooms still to come.
RECURSIVE Tunnelled(_, _, _, _)
Tunnelled(v, door, left, all) ==
  IF left = {} THEN { [door |-> door, tunnels |-> <<>>] }
  ELSE UNION {
         IF TunnelDx(v, room) = 0 /\ TunnelDy(v, room) = 0
         THEN Tunnelled(v, door, left \ {room}, all)
         ELSE UNION { UNION { LET t == TunnelTo(v, door, room, all, first, start)
                              IN IF t.tunnels # <<>> THEN { t }
                                 ELSE Tunnelled(v, t.door, left \ {room}, all) :
                                start \in TunnelStarts(v, room, first) } :
                      first \in TunnelBranches(v, room) } :
         room \in left }

\* The player before player.place.
Unplaced == <<-1, -1>>

SetTiles(tiles, S, kind) == [t \in DunPos |-> IF t \in S THEN kind ELSE tiles[t]]

\* generate_dungeon before its loop.
NewDungeon(par) ==
  [pc |-> "placing", rooms |-> {}, vaults |-> {}, placed |-> <<>>, count |-> 0,
   attempts |-> 0, center_of_last_room |-> <<0, 0>>,
   tiles |-> [t \in DunPos |-> "wall"], start |-> Unplaced,
   downstairs_location |-> <<0, 0>>, boss |-> <<>>, floor_number |-> 0, par |-> par]

\* The door tile, the door direction and the second door the loop draws:
\* the middle of the map for the first room, else two tiles of the top or
\* bottom edge, or of the left or right edge, of a room placed before.
Seeds(w) ==
  IF w.count = 0
  THEN { [door |-> <<w.par.map_width \div 2, w.par.map_height \div 2>>,
          dir |-> <<0, 0>>, door2 |-> Unplaced] }
  ELSE UNION {
         { [door |-> <<c[1], c[3]>>, dir |-> <<0, IF c[3] = o.y1 THEN -1 ELSE 1>>,
            door2 |-> <<c[2], c[3]>>] :
             c \in { d \in (o.x1 .. o.x2 - 1) \X (o.x1 .. o.x2 - 1) \X {o.y1, o.y2} :
                       d[1] # d[2] } }
         \cup
         { [door |-> <<c[3], c[1]>>, dir |-> <<IF c[3] = o.x1 THEN -1 ELSE 1, 0>>,
            door2 |-> <<c[3], c[2]>>] :
             c \in { d \in (o.y1 .. o.y2 - 1) \X (o.y1 .. o.y2 - 1) \X {o.x1, o.x2} :
                       d[1] # d[2] } } :
         o \in w.rooms }

\* The attempt is counted and the room dropped.
DropRoom(w) == [w EXCEPT !.attempts = @ + 1]

\* The first room: its floor, and the player in its middle.
PlaceFirstRoom(w, room) ==
  [w EXCEPT !.attempts = @ + 1, !.count = @ + 1, !.rooms = @ \cup {room},
            !.placed = Append(@, [room |-> room, is_vault |-> FALSE]),
            !.tiles = SetTiles(@, inner(room), "floor"),
            !.start = center(room),
            !.center_of_last_room = center(room)]

\* A room that is not a vault: its floor, its door and its second door.
PlaceRoom(w, seed, room) ==
  [w EXCEPT !.attempts = @ + 1, !.count = @ + 1, !.rooms = @ \cup {room},
            !.placed = Append(@, [room |-> room, is_vault |-> FALSE]),
            !.tiles = SetTiles(SetTiles(@, inner(room), "floor"),
                               {seed.door} \cup
                                 (IF has_tile(room, seed.door2) THEN {seed.door2} ELSE {}),
                               "door"),
            !.center_of_last_room = center(room)]

\* A vault v with the door and the tunnels vaultify left: the vault joins
\* vaults, its tunnels join rooms.
PlaceVault(w, v, t) ==
  [w EXCEPT !.attempts = @ + 1, !.count = @ + Len(t.tunnels),
            !.rooms = @ \cup Range(t.tunnels),
            !.vaults = @ \cup {v},
            !.placed = Append(@, [room |-> v, is_vault |-> TRUE]),
            !.tiles = SetTiles(@, inner(v) \cup {t.door}
                                   \cup UNION { inner(u) : u \in Range(t.tunnels) },
                               "vault_floor")]

InitDungeon ==
  /\ world = NewDungeon([map_width |-> DunW, map_height |-> DunH, room_max_size |-> 3,
                         room_min_size |-> 2, ooze_factor |-> "zero",
                         vault_chance |-> "part", max_rooms |-> MaxRooms,
                         max_attempts |-> MaxAttempts])
  /\ InitCommon

\* One turn of the placement loop.
DungeonAttempt ==
  /\ world.pc = "placing"
  /\ world.count < world.par.max_rooms /\ world.attempts < world.par.max_attempts
  /\ \E seed \in Seeds(world) :
     \E room \in Grown(NewRoom(seed.door[1], seed.door[2], seed.dir,
                               world.rooms \cup world.vaults, world.par)) :
       IF TooSmall([room |-> room, par |-> world.par])
       THEN world' = DropRoom(world)
       ELSE IF world.count = 0
       THEN world' = PlaceFirstRoom(world, room)
       ELSE \E is_vault \in Below(world.par.vault_chance) :
              IF is_vault
              THEN \E v \in Relocated([room |-> room, vault_juice |-> "one",
                                       rooms |-> world.rooms \cup world.vaults,
                                       par |-> world.par]) :
                   \E t \in Tunnelled(v, seed.door, world.rooms \cup world.vaults,
                                      world.rooms \cup world.vaults) :
                     world' = PlaceVault(world, v, t)
              ELSE world' = PlaceRoom(world, seed, room)
  /\ GenFrame

\* After the loop: the stairs, or the boss on the final floor, at the
\* middle of the last room that is not a vault.
DungeonFinish ==
  /\ world.pc = "placing"
  /\ ~(world.count < world.par.max_rooms /\ world.attempts < world.par.max_attempts)
  /\ \E floor_number \in {1, FinalFloor} :
       world' = [world EXCEPT
                   !.pc = "done", !.floor_number = floor_number,
                   !.tiles = IF floor_number # FinalFloor
                             THEN SetTiles(@, {world.center_of_last_room}, "down_stairs")
                             ELSE @,
                   !.boss = IF floor_number # FinalFloor THEN @
                            ELSE Append(@, world.center_of_last_room),
                   !.downstairs_location = world.center_of_last_room]
  /\ GenFrame

NextDungeon == DungeonAttempt \/ DungeonFinish

SpecDungeon == InitDungeon /\ [][NextDungeon]_vars

(***************************************************************************)
(* The same loop taken up after two of its turns: the first room and one   *)
(* vault, moved up by one tile, that found no room to tunnel to.  The      *)
(* dungeon specification reaches this state (VaultDungeonReached).         *)
(***************************************************************************)
DungeonWithVault ==
  PlaceVault(
    PlaceFirstRoom(
      NewDungeon([map_width |-> DunW, map_height |-> DunH, room_max_size |-> 3,
                  room_min_size |-> 2, ooze_factor |-> "zero",
                  vault_chance |-> "part", max_rooms |-> MaxRooms,
                  max_attempts |-> MaxAttempts + 1]),
      Rect(1, 3, 4, 6)),
    Rect(1, 3, 1, 3), [door |-> <<1, 4>>, tunnels |-> <<>>])

InitDungeonWithVault == world = DungeonWithVault /\ InitCommon

SpecDungeonWithVault == InitDungeonWithVault /\ [][NextDungeon]_vars

VaultDungeonReached == [world EXCEPT !.par = DungeonWithVault.par] = DungeonWithVault

\* The tiles that can be walked to from the tiles of S over tiles that are
\* not wall, in the eight directions.
RECURSIVE Flood(_, _)
Flood(S, open) ==
  Bind({ t \in open \ S : \E u \in S : Cheb(t, u) <= 1 }, LAMBDA new :
    IF new = {} THEN S ELSE Flood(S \cup new, open))

StairsReachable(w) ==
  /\ w.start # Unplaced
  /\ w.downstairs_location \in
       Flood({w.start}, { t \in DunPos : w.tiles[t] # "wall" })

StairsTiles(w) == { t \in DunPos : w.tiles[t] = "down_stairs" }

\* C25: a generated floor has exactly one stairs tile, which is the
\* downstairs location and can be reached from the tile the player starts
\* on; the final floor has no stairs tile and exactly one boss, at the
\* middle of the last room.
C25_OneReachableStairs ==
  world.pc = "done" =>
    IF world.floor_number # FinalFloor
    THEN /\ StairsTiles(world) = { world.downstairs_location }
         /\ StairsReachable(world)
    ELSE /\ StairsTiles(world) = {}
         /\ world.boss = << world.center_of_last_room >>

\* The same without the demand that the stairs can be reached.
OneStairsOrOneBoss ==
  world.pc = "done" =>
    IF world.floor_number # FinalFloor
    THEN StairsTiles(world) = { world.downstairs_location }
    ELSE StairsTiles(world) = {} /\ world.boss = << world.center_of_last_room >>

\* Without vaults the stairs can be reached.
StairsReachableWithoutVaults ==
  (world.pc = "done" /\ world.floor_number # FinalFloor /\ world.vaults = {})
    => StairsReachable(world)


\* C26: no two rooms placed by the generation overlap, vaults after their
\* move and the rooms placed after a vault included: the intersection test
\* is false for every pair of different rooms and vaults.
C26_RoomsDoNotOverlap ==
  \A i \in DOMAIN world.placed, j \in DOMAIN world.placed :
    i # j => ~intersects(world.placed[i].room, world.placed[j].room)

\* A finished dungeon with a vault that was placed after the first room and
\* a room that was placed after the vault.
C26_Witness ==
  /\ world.pc = "done"
  /\ \E i \in DOMAIN world.placed, j \in DOMAIN world.placed :
       i < j /\ world.placed[i].is_vault /\ ~world.placed[j].is_vault

\* The rectangle of a tunnel overlaps no room, vault or tunnel either.
TunnelsDoNotOverlap ==
  \A r \in world.rooms \cup world.vaults, o \in world.rooms \cup world.vaults :
    r # o => ~intersects(r, o)

\* For every ooze factor, a room that is being grown or moved overlaps no
\* room placed before it.
RoomClearOfNeighbours ==
  world.pc \in {"growing", "grown", "moving", "moved", "placed"} =>
    \A other \in world.rooms : ~intersects(world.room, other)

(***************************************************************************)
(* Letter identities (generate_item_identities).  The glyphs are numbered; *)
(* letters gives the weight of each glyph (Item.letters), catalog the      *)
(* rarity of each entry (entity_factories.c_segments).  Here world holds   *)
(* the pool letters_weighted, the entries of the shuffled catalog still to *)
(* come in this round, and the items made so far.                          *)
(***************************************************************************)
NumLetters == 3

MaxWeight == 2

MaxCatalog == 3

Rarities == {"r", "u", "c"}

\* {'r':0,'u':1,'c':2}
ThirdOf(rarity) == IF rarity = "r" THEN 0 ELSE IF rarity = "u" THEN 1 ELSE 2

\* Item.letters(): a weight for every glyph.
LetterWeights == [1 .. NumLetters -> 1 .. MaxWeight]

\* entity_factories.c_segments: a catalog that is not empty.
Catalogs == UNION { [1 .. n -> Rarities] : n \in 1 .. MaxCatalog }

\* The orders the sort can give letters_weighted: weight[l] copies of each
\* glyph l, by ascending weight; the random part of the key, below 1,
\* orders the copies of glyphs of the same weight in any way.
RECURSIVE SortedPools(_, _)
SortedPools(weight, left) ==
  IF \A l \in DOMAIN left : left[l] = 0 THEN { <<>> }
  ELSE UNION { { <<l>> \o rest : rest \in SortedPools(weight, [left EXCEPT ![l] = @ - 1]) } :
               l \in { m \in DOMAIN left :
                         /\ left[m] > 0
                         /\ \A n \in DOMAIN left : left[n] > 0 => weight[m] <= weight[n] } }

\* numpy.array_split(pool, 3)[k] for k = 0, 1, 2: the first len % 3 parts
\* have one element more than the others.
array_split3(pool, k) ==
  LET q == Len(pool) \div 3
      r == Len(pool) % 3
      first == k * q + (IF k < r THEN k ELSE r)
      size == q + (IF k < r THEN 1 ELSE 0)
  IN SubSeq(pool, first + 1, first + size)

\* A removal that takes only the first copy of the glyph out of the pool.
WithoutFirstCopy(pool, char) ==
  LET k == CHOOSE i \in DOMAIN pool : pool[i] = char /\ \A j \in 1 .. i - 1 : pool[j] # char
  IN SubSeq(pool, 1, k - 1) \o SubSeq(pool, k + 1, Len(pool))

\* "[l for l in letters_weighted if l != item.char]"
without(pool, char) == SelectSeq(pool, LAMBDA l : l # char)

\* The orders random.shuffle can give the catalog.
Shuffles(n) ==
  { f \in [1 .. n -> 1 .. n] : \A i \in 1 .. n, j \in 1 .. n : i # j => f[i] # f[j] }

\* The glyphs random.choice can give the entry of rarity rarity.
Chars(pool, rarity) ==
  IF Len(array_split3(pool, ThirdOf(rarity))) > 0
  THEN Range(array_split3(pool, ThirdOf(rarity))) ELSE Range(pool)

InitIdentities ==
  /\ \E weight \in LetterWeights, catalog \in Catalogs :
     \E pool \in SortedPools(weight, weight) :
       world = [pc |-> "while", letters |-> weight, catalog |-> catalog,
                letters_weighted |-> pool, item_fs |-> <<>>, all_items |-> <<>>]
  /\ InitCommon

\* A turn of the while loop begins: the catalog is copied and shuffled.
IdentitiesShuffle ==
  /\ world.pc = "while"
  /\ Len(world.letters_weighted) > 0
  /\ \E f \in Shuffles(Len(world.catalog)) :
       world' = [world EXCEPT !.pc = "for", !.item_fs = f]
  /\ GenFrame

\* A turn of the for loop: the next entry of the shuffled catalog gets a
\* glyph, and every copy of the glyph leaves the pool.  The item records
\* the entry, the glyph and whether the third of its rarity was empty.
IdentitiesAssign ==
  /\ world.pc = "for"
  /\ \E char \in Chars(world.letters_weighted, world.catalog[Head(world.item_fs)]) :
     \E pool \in { without(world.letters_weighted, char) } :
       world' = [world EXCEPT
          !.all_items = Append(@,
             [entry |-> Head(world.item_fs),
              rarity |-> world.catalog[Head(world.item_fs)],
              char |-> char,
              third |-> Range(array_split3(world.letters_weighted,
                                ThirdOf(world.catalog[Head(world.item_fs)])))]),
          !.letters_weighted = pool,
          !.item_fs = Tail(@),
          !.pc = IF Len(pool) = 0 THEN "done"
                 ELSE IF Tail(world.item_fs) = <<>> THEN "while" ELSE "for"]
  /\ GenFrame

NextIdentities == IdentitiesShuffle \/ IdentitiesAssign

SpecIdentities == InitIdentities /\ [][NextIdentities]_vars

\* Every turn of a loop that can be taken is taken.
SpecIdentitiesFair == SpecIdentities /\ WF_vars(NextIdentities)

ItemsOfEntry(w, e) == { k \in DOMAIN w.all_items : w.all_items[k].entry = e }

NoGlyphTwice(w) ==
  \A k \in DOMAIN w.all_items, l \in DOMAIN w.all_items :
    k # l => w.all_items[k].char # w.all_items[l].char

\* C29 as stated: when generate_item_identities is done every catalog entry
\* has exactly one glyph, no glyph is assigned twice, and every glyph was
\* drawn from the third of the pool that matches the rarity of its entry.
C29_OneGlyphPerEntryFromItsThird ==
  world.pc = "done" =>
    /\ \A e \in DOMAIN world.catalog : Cardinality(ItemsOfEntry(world, e)) = 1
    /\ NoGlyphTwice(world)
    /\ \A k \in DOMAIN world.all_items :
         world.all_items[k].char \in world.all_items[k].third

\* C29, amended: generate_item_identities terminates, and then every glyph
\* of the pool is assigned to exactly one item and no glyph twice; the
\* entries are taken in shuffled rounds, so no entry has two glyphs more
\* than another; and every glyph was drawn from the third of the remaining
\* pool that matches the rarity of its entry, or from the whole remaining
\* pool when that third was empty.
C29_EveryGlyphOnce ==
  /\ <>(world.pc = "done")
  /\ [](world.pc = "done" =>
          /\ { world.all_items[k].char : k \in DOMAIN world.all_items }
               = DOMAIN world.letters
          /\ NoGlyphTwice(world)
          /\ \A e \in DOMAIN world.catalog, f \in DOMAIN world.catalog :
               Cardinality(ItemsOfEntry(world, e))
                 <= Cardinality(ItemsOfEntry(world, f)) + 1
          /\ \A k \in DOMAIN world.all_items :
               \/ world.all_items[k].char \in world.all_items[k].third
               \/ world.all_items[k].third = {})

\* Done with an entry that has two glyphs and an item whose third was empty.
C29_Witness ==
  /\ world.pc = "done"
  /\ \E e \in DOMAIN world.catalog : Cardinality(ItemsOfEntry(world, e)) = 2
  /\ \E k \in DOMAIN world.all_items : world.all_items[k].third = {}
  /\ \E k \in DOMAIN world.all_items :
       world.all_items[k].rarity = "c"
       /\ world.all_items[k].char \in world.all_items[k].third

\* With as many entries as glyphs every entry has exactly one glyph.
OneGlyphPerEntryOfFullCatalog ==
  (world.pc = "done" /\ Len(world.catalog) = NumLetters) =>
    \A e \in DOMAIN world.catalog : Cardinality(ItemsOfEntry(world, e)) = 1

(***************************************************************************)
(* The order specification: Engine.handle_enemy_turns taken one statement  *)
(* at a time.  The hooks and perform() are kept as entries of a log; what  *)
(* perform() does is a choice: it returns, raises Impossible, or leaves    *)
(* the player dead.  Every actor of the list has an ai (game_map.actors    *)
(* keeps the living ones, and an enemy that dies keeps its ai), so the     *)
(* tests "if entity.ai" pass.  Here world is the engine during the phase.  *)
(***************************************************************************)
NumPhaseEnemies == 3

\* A list of ids with the largest first.
RECURSIVE SortedByIdDescending(_)
SortedByIdDescending(S) ==
  IF S = {} THEN <<>>
  ELSE LET e == CHOOSE x \in S : \A y \in S : x >= y
       IN <<e>> \o SortedByIdDescending(S \ {e})

\* sorted(set(self.game_map.actors) - {self.player}, key=lambda x: x.id)
RECURSIVE SortedById(_)
SortedById(S) ==
  IF S = {} THEN <<>>
  ELSE LET e == CHOOSE x \in S : \A y \in S : x <= y
       IN <<e>> \o SortedById(S \ {e})

Logged(w, what, who) == [w EXCEPT !.log = Append(@, [what |-> what, who |-> who])]

\* The loop variable moves on; after the last enemy the next loop begins.
NextEnemy(w, then) ==
  IF w.i < Len(w.enemies) THEN [w EXCEPT !.i = @ + 1] ELSE [w EXCEPT !.i = 1, !.pc = then]

InitOrder ==
  /\ world = [pc |-> "idle", enemies |-> <<>>, i |-> 1, log |-> <<>>, alive |-> TRUE,
              turn_count |-> 0, turn_before |-> 0, written |-> <<>>]
  /\ InitCommon

\* handle_enemy_turns is entered: the enemies on the map are sorted.  (The
\* clearing of intents outside word mode comes first and calls no hook.)
PhaseBegins ==
  /\ world.pc \in {"idle", "done"}
  /\ world.turn_count < MaxTurn
  /\ \E S \in SUBSET (1 .. NumPhaseEnemies) :
     \E es \in { SortedById(S) } :
       world' = [world EXCEPT !.pc = IF es = <<>> THEN "player_post" ELSE "pre",
                              !.enemies = es, !.i = 1, !.log = <<>>,
                              !.turn_before = world.turn_count]
  /\ GenFrame

\* "enemy pre turns"
EnemyPreTurn ==
  /\ world.pc = "pre"
  /\ world' = NextEnemy(Logged(world, "pre_turn", world.enemies[world.i]), "turns")
  /\ GenFrame

\* "enemy turns": a blinded-by or petrified enemy is passed over.
EnemySkipped ==
  /\ world.pc = "turns"
  /\ world' = NextEnemy(world, "post")
  /\ GenFrame

\* "the rest do their thing": perform() returns, or raises Impossible, which
\* is passed over, and the player is alive after it.
EnemyPerforms ==
  /\ world.pc = "turns"
  /\ world' = NextEnemy(Logged(world, "perform", world.enemies[world.i]), "post")
  /\ GenFrame

\* "if not self.player.is_alive: return"
EnemyKillsPlayer ==
  /\ world.pc = "turns"
  /\ world' = [Logged(world, "perform", world.enemies[world.i]) EXCEPT
                 !.alive = FALSE, !.pc = "returned"]
  /\ GenFrame

\* "enemy post-turns"
EnemyPostTurn ==
  /\ world.pc = "post"
  /\ world' = NextEnemy(Logged(world, "on_turn", world.enemies[world.i]), "player_post")
  /\ GenFrame

\* "player post-turn"
PlayerPostTurn ==
  /\ world.pc = "player_post"
  /\ world' = [Logged(world, "on_turn", 0) EXCEPT !.pc = "count"]
  /\ GenFrame

\* self.turn_count += 1
TurnCounted ==
  /\ world.pc = "count"
  /\ world' = [Logged(world, "turn_count", 0) EXCEPT !.turn_count = @ + 1, !.pc = "save"]
  /\ GenFrame

\* self.save_turn_snapshot(): snapshot_{turn_count}.sav is written.
SnapshotSaved ==
  /\ world.pc = "save"
  /\ world' = [Logged(world, "snapshot", 0) EXCEPT
                 !.written = Append(@, world.turn_count), !.pc = "done"]
  /\ GenFrame

NextOrder ==
  \/ PhaseBegins \/ EnemyPreTurn \/ EnemySkipped \/ EnemyPerforms \/ EnemyKillsPlayer
  \/ EnemyPostTurn \/ PlayerPostTurn \/ TurnCounted \/ SnapshotSaved

SpecOrder == InitOrder /\ [][NextOrder]_vars

\* The place of an entry of the log in the order of the phase.
PhaseRank(entry) ==
  CASE entry.what = "pre_turn" -> 1
    [] entry.what = "perform" -> 2
    [] entry.what = "on_turn" /\ entry.who # 0 -> 3
    [] entry.what = "on_turn" /\ entry.who = 0 -> 4
    [] entry.what = "turn_count" -> 5
    [] OTHER -> 6

Entries(w, rank) == { k \in DOMAIN w.log : PhaseRank(w.log[k]) = rank }

\* C30: in a completed enemy phase every pre-turn hook of an enemy comes
\* before every perform, the enemies perform in ascending order of id, every
\* post-turn hook of an enemy comes after every perform, the post-turn hook
\* of the player after those, and then the turn counter goes up by exactly
\* one and the snapshot of the new turn count is written.
C30_PhaseOrder ==
  world.pc = "done" =>
    /\ \A k \in DOMAIN world.log, l \in DOMAIN world.log :
         k < l => /\ PhaseRank(world.log[k]) <= PhaseRank(world.log[l])
                  /\ PhaseRank(world.log[k]) = 2 /\ PhaseRank(world.log[l]) = 2
                       => world.log[k].who < world.log[l].who
    /\ { world.log[k].who : k \in Entries(world, 1) } = Range(world.enemies)
    /\ { world.log[k].who : k \in Entries(world, 3) } = Range(world.enemies)
    /\ Cardinality(Entries(world, 1)) = Len(world.enemies)
    /\ Cardinality(Entries(world, 3)) = Len(world.enemies)
    /\ Cardinality(Entries(world, 4)) = 1
    /\ Cardinality(Entries(world, 5)) = 1
    /\ Cardinality(Entries(world, 6)) = 1
    /\ world.turn_count = world.turn_before + 1
    /\ world.written[Len(world.written)] = world.turn_count

\* A completed second phase in which three enemies performed.
C30_Witness ==
  /\ world.pc = "done"
  /\ Cardinality(Entries(world, 2)) = 3
  /\ world.turn_count = 2

\* A phase that the player does not survive counts no turn and writes no
\* snapshot.
NoTurnForTheDead ==
  world.pc = "returned" =>
    /\ world.turn_count = world.turn_before
    /\ Len(world.written) = world.turn_count

(***************************************************************************)
(* The tile specification: on the floor of World0 the player moves and     *)
(* picks up, the enemies move, and a segment carrying a                    *)
(* ReversingConsumable or a ChangelingConsumable is digested               *)
(* (ItemAction.perform calls activate) or activated through                *)
(* start_activation.                                                       *)
(***************************************************************************)
Reverse(s) == [k \in 1 .. Len(s) |-> s[Len(s) + 1 - k]]

\* [i for i in items if i.blocks_movement] and its complement.
solid_items(w, items) == SelectSeq(items, LAMBDA j : w.item[j].solid)

nonsolid_items(w, items) == SelectSeq(items, LAMBDA j : ~w.item[j].solid)

\* ReversingConsumable.activate of segment i: the head is placed on the tile
\* of the last solid segment, the segment is consumed, and the solid and the
\* non-solid segments are each reversed.  Without a solid segment the [-1]
\* raises an IndexError.
ReversingActivate(w, tbl, i) ==
  IF solid_items(w, w.chain) = <<>> THEN Crashed(w, tbl)
  ELSE Res([item_consume(w, i) EXCEPT
              !.head = w.item[solid_items(w, w.chain)[Len(solid_items(w, w.chain))]].xy,
              !.chain = Reverse(solid_items(w, SelectSeq(w.chain, LAMBDA j : j # i)))
                          \o Reverse(nonsolid_items(w, SelectSeq(w.chain, LAMBDA j : j # i)))],
           tbl, FALSE, FALSE)

\* ReversingConsumable.start_activation: activate, identify, then the snake()
\* that consume() arranged, from the consumed segment's tile and index.
ReversingStartActivation(w, tbl, i) ==
  IF solid_items(w, w.chain) = <<>> THEN Crashed(w, tbl)
  ELSE Res(snake(ReversingActivate(w, tbl, i).w, w.item[i].xy, IndexOf(w, i)),
           set_identified(w, tbl, i, TRUE), FALSE, FALSE)

InitTile == world = WorldLongChain(0) /\ InitCommon

TilePlayerMove ==
  \E d \in DIRECTIONS :
    /\ world.alive
    /\ \E ord \in (IF MovementAllowed(world, Plus(world.head, d))
                   THEN Orders(ItemsAt(world, Plus(world.head, d))) ELSE { <<>> }) :
       \E r \in { PlayerMovementAction(world, item_factories, d, ord,
                                       [e \in EnemyIds |-> CanonGlyph]) } :
         /\ world' = r.w
         /\ item_factories' = r.tbl
         /\ ChainFrame("move", <<"player", 0>>, r.raised, "")

TileEnemyMove ==
  \E e \in EnemyIds, d \in DIRECTIONS :
    /\ world.alive /\ world.enemy[e].on_map
    /\ \E r \in { EnemyMovementAction(world, item_factories, e, d) } :
         /\ world' = r.w
         /\ item_factories' = r.tbl
         /\ ChainFrame("move", <<"enemy", e>>, r.raised, "")

\* ItemAction.perform on a segment whose edible is a ReversingConsumable.
TileDigestReversing ==
  \E k \in 1 .. Len(world.chain) :
    /\ world.alive
    /\ solid_items(world, world.chain) # <<>>
    /\ \E r \in { ReversingActivate(world, item_factories, world.chain[k]) } :
         /\ world' = r.w
         /\ item_factories' = r.tbl
    /\ ChainFrame("digest", <<"player", 0>>, FALSE, "reversing")

\* start_activation of a segment's ReversingConsumable.
TileStartReversing ==
  \E k \in 1 .. Len(world.chain) :
    /\ world.alive
    /\ solid_items(world, world.chain) # <<>>
    /\ \E r \in { ReversingStartActivation(world, item_factories, world.chain[k]) } :
         /\ world' = r.w
         /\ item_factories' = r.tbl
    /\ ChainFrame("start_activation", <<"player", 0>>, FALSE, "reversing")

\* ItemAction.perform on a segment whose edible is a ChangelingConsumable.
TileDigestChangeling ==
  \E k \in 1 .. Len(world.chain), g \in Consonants :
    /\ world.alive
    /\ FreshItemIds(world) # {}
    /\ world' = ChangelingActivate(world, item_factories, world.chain[k],
                                   CHOOSE j \in FreshItemIds(world) : TRUE, g)
    /\ UNCHANGED item_factories
    /\ ChainFrame("digest", <<"player", 0>>, FALSE, "changeling")

\* start_activation of a segment's ChangelingConsumable.
TileStartChangeling ==
  \E k \in 1 .. Len(world.chain), g \in Consonants :
    /\ world.alive
    /\ FreshItemIds(world) # {}
    /\ \E r \in { ChangelingStartActivation(world, item_factories, world.chain[k],
                                            CHOOSE j \in FreshItemIds(world) : TRUE, g) } :
         /\ world' = r.w
         /\ item_factories' = r.tbl
    /\ ChainFrame("start_activation", <<"player", 0>>, FALSE, "changeling")

NextTile ==
  \/ TilePlayerMove \/ TileEnemyMove
  \/ TileDigestReversing \/ TileStartReversing
  \/ TileDigestChangeling \/ TileStartChangeling

SpecTile == InitTile /\ [][NextTile]_vars

\* C33: no two blocking entities (the head, the solid segments, the living
\* enemies) ever stand on the same tile, whatever was moved, picked up or
\* digested.
C33_BlockersOnDistinctTiles ==
  \A p \in Pos : Cardinality(BlockersAt(world, p)) <= 1

\* Entity.snake solidifies a segment only on a tile without a blocking
\* entity: a step that is a move keeps the blocking entities apart.
MovesKeepBlockersApart ==
  [][(outcome'.op = "move" /\ \A p \in Pos : Cardinality(BlockersAt(world, p)) <= 1)
       => \A p \in Pos : Cardinality(BlockersAt(world', p)) <= 1]_vars

\* The chain is a run of solid segments followed by a run of non-solid ones.
NonSolidSuffix(w) ==
  \A k \in 1 .. Len(w.chain), l \in 1 .. Len(w.chain) :
    (k < l /\ ~w.item[w.chain[k]].solid) => ~w.item[w.chain[l]].solid

\* C34: in the body chain the non-solid segments always form a suffix: after
\* a non-solid segment every later segment is non-solid.
C34_NonSolidSegmentsFormSuffix == NonSolidSuffix(world)

\* Moves with their pickups, and the digestion of a ReversingConsumable,
\* keep the non-solid segments at the end of the chain.
MovesKeepNonSolidSuffix ==
  [][(outcome'.op = "move" \/ outcome'.arg = "reversing") /\ NonSolidSuffix(world)
       => NonSolidSuffix(world')]_vars

(***************************************************************************)
(* Descending, under the action specification.                             *)
(***************************************************************************)
\* w2 holds a map generated after w: nothing of it is mapped or explored
\* beyond the first field of view, and of the entities of w only the player
\* and the chain are on it.
FreshMapAfter(w, w2) ==
  /\ w2.mapped = {}
  /\ w2.explored = fov(w2.head)
  /\ w2.chain = w.chain
  /\ \A e \in EnemyIds : ~w2.enemy[e].on_map
  /\ \A i \in DOMAIN w2.item : w2.item[i].on_map => InChain(w, i)

\* C35: TakeStairsAction succeeds exactly on the downstairs location of the
\* current map, and then the floor number grows by one and a new map is
\* generated; anywhere else it raises Impossible and leaves the floor number
\* and the map as they were.
C35_StairsOnlyAtDownstairs ==
  [][outcome'.op = "stairs" =>
       IF world.head = world.downstairs
       THEN /\ ~outcome'.raised
            /\ world'.floor = world.floor + 1
            /\ FreshMapAfter(world, world')
       ELSE /\ outcome'.raised
            /\ world' = world]_vars

\* The player has descended with a segment in the chain, leaving an item and
\* an enemy behind on the first floor.
C35_Witness ==
  /\ outcome.op = "stairs"
  /\ ~outcome.raised
  /\ world.floor = 2
  /\ Len(world.chain) = 1
  /\ world.head = PlayerStart

(***************************************************************************)
(* The scheduler specification: a floor with every enemy on it.  The       *)
(* player comes under PetrifEyes, enemies are petrified or phased out, and *)
(* the player moves, waits or takes the stairs, each input that goes       *)
(* through being followed by the enemy phase.                              *)
(***************************************************************************)
\* The numbers of statuses applied and of turns taken.
MaxGazeOps == 2

MaxGazeTurns == 2

InitGaze == world = WorldAllEnemies /\ InitCommon

GazeFrame ==
  /\ opcount < MaxGazeOps
  /\ opcount' = opcount + 1
  /\ UNCHANGED <<item_factories, turn_count, snapshots, just_turned_back_time, handler, replay,
                 forecast, enemy_phase>>

\* PetrifEyesConsumable.activate on the player.
GazeDigest ==
  /\ world.alive
  /\ world' = apply_status(world, <<"player", 0>>, "PetrifEyes", PetrifEyesDuration)
  /\ outcome' = [op |-> "apply_status", actor |-> <<"player", 0>>, raised |-> FALSE,
                 arg |-> "PetrifEyes"]
  /\ GazeFrame

\* A projectile that petrifies or phases out the enemy it hits.
GazeSpit ==
  \E kind \in {"Petrified", "PhasedOut"}, e \in EnemyIds :
    /\ world.alive
    /\ world.enemy[e].on_map
    /\ world' = apply_status(world, <<"enemy", e>>, kind, DefaultDuration)
    /\ outcome' = [op |-> "apply_status", actor |-> <<"enemy", e>>, raised |-> FALSE, arg |-> kind]
    /\ GazeFrame

GazeTurn ==
  /\ handler = "main"
  /\ turn_count < MaxGazeTurns
  /\ \E inp \in ForecastInputs :
     \E ch \in Draws(world, inp) :
     \E r \in { handle_action(world, item_factories, snapshots, turn_count, inp, ch) } :
       /\ DrawsMatter(world, r.w, ch)
       /\ world' = r.w
       /\ item_factories' = r.tbl
       /\ turn_count' = r.turn
       /\ snapshots' = r.snaps
       /\ just_turned_back_time' = FALSE
       /\ handler' = NextHandler(handler, r)
       /\ outcome' = [op |-> inp.kind, actor |-> <<"player", 0>>, raised |-> r.raised,
                      arg |-> "gaze"]
       /\ enemy_phase' = r.last
       /\ UNCHANGED <<opcount, replay, forecast>>

NextGaze == GazeDigest \/ GazeSpit \/ GazeTurn

SpecGaze == InitGaze /\ [][NextGaze]_vars

\* The two tests of the second loop of handle_enemy_turns that end an enemy's
\* turn with clear_intent() and continue.
SkippedUnderPetrifEyes(w, e) ==
  /\ HasKind(w.statuses, "PetrifEyes")
  /\ w.enemy[e].xy \in w.visible
  /\ w.enemy[e].ai # "constricted"

SkippedAsPetrified(w, e) ==
  /\ HasKind(w.enemy[e].statuses, "Petrified") \/ HasKind(w.enemy[e].statuses, "PhasedOut")
  /\ w.enemy[e].ai # "constricted"

\* C36: an enemy that is not constricted and whose intent the scheduler
\* clears (the player has PetrifEyes and sees the enemy's tile, or the enemy
\* is petrified or phased out) performs no action in that enemy phase: its
\* perform() is not called and it stays where it was, with the ai and the
\* statuses it had (another enemy's attack may still wound it).
C36_ClearedEnemyDoesNotPerform ==
  [][outcome'.arg = "gaze" =>
       \A e \in enemy_phase'.enemies :
         (SkippedUnderPetrifEyes(enemy_phase'.before, e) \/ SkippedAsPetrified(enemy_phase'.before, e))
           => /\ e \notin enemy_phase'.performed
              /\ enemy_phase'.after.enemy[e].xy = enemy_phase'.before.enemy[e].xy
              /\ enemy_phase'.after.enemy[e].ai = enemy_phase'.before.enemy[e].ai
              /\ enemy_phase'.after.enemy[e].statuses = enemy_phase'.before.enemy[e].statuses]_vars

\* A phase under PetrifEyes in which an enemy out of sight but petrified or
\* phased out was passed over and another enemy performed and moved.
C36_Witness ==
  /\ outcome.arg = "gaze" /\ ~outcome.raised
  /\ \E e \in enemy_phase.enemies :
       /\ SkippedAsPetrified(enemy_phase.before, e)
       /\ ~SkippedUnderPetrifEyes(enemy_phase.before, e)
       /\ e \in enemy_phase.reached
  /\ \E e \in enemy_phase.enemies :
       /\ e \in enemy_phase.performed
       /\ enemy_phase.after.enemy[e].xy # enemy_phase.before.enemy[e].xy
  /\ HasKind(enemy_phase.before.statuses, "PetrifEyes")

(***************************************************************************)
(* The last-turn specification: the floor of World0 with any of the        *)
(* enemies on it, none included; the player moves, waits or takes the      *)
(* stairs until the game is over.                                          *)
(***************************************************************************)
MaxLastTurns == 5

InitLast ==
  /\ \E es \in SUBSET EnemyIds :
       world = [World0 EXCEPT !.enemy = [e \in EnemyIds |-> [Enemy0(e) EXCEPT !.on_map = e \in es]]]
  /\ InitCommon

LastTurn ==
  /\ handler = "main"
  /\ turn_count < MaxLastTurns
  /\ \E inp \in ForecastInputs :
     \E ch \in Draws(world, inp) :
     \E r \in { handle_action(world, item_factories, snapshots, turn_count, inp, ch) } :
       /\ DrawsMatter(world, r.w, ch)
       /\ world' = r.w
       /\ item_factories' = r.tbl
       /\ turn_count' = r.turn
       /\ snapshots' = r.snaps
       /\ just_turned_back_time' = FALSE
       /\ handler' = NextHandler(handler, r)
       /\ outcome' = [op |-> inp.kind, actor |-> <<"player", 0>>, raised |-> r.raised,
                      arg |-> "last"]
       /\ enemy_phase' = r.last
       /\ UNCHANGED <<opcount, replay, forecast>>

NextLast == LastTurn

SpecLast == InitLast /\ [][NextLast]_vars

\* C37: once the player is dead, the turn counter is not incremented and no
\* snapshot is written, whether the player died of their own action
\* (trapped) or during an enemy's action: a step that leaves the player dead
\* leaves both as they were.
C37_NoTurnOnceDead ==
  [][~world'.alive => (turn_count' = turn_count /\ snapshots' = snapshots)]_vars

\* A player who dies during an enemy's action has no turn counted and no
\* snapshot written.
NoTurnWhenKilledByEnemy ==
  [][(~world'.alive /\ enemy_phase'.before.alive /\ outcome'.arg = "last")
       => (turn_count' = turn_count /\ snapshots' = snapshots)]_vars

\* A player who dies trapped has no turn counted and no snapshot written as
\* long as an enemy's perform() is called in the phase that follows.
NoTurnWhenTrappedAndEnemyPerforms ==
  [][(~world'.alive /\ ~enemy_phase'.before.alive /\ enemy_phase'.performed # {}
        /\ outcome'.arg = "last")
       => (turn_count' = turn_count /\ snapshots' = snapshots)]_vars

(***************************************************************************)
(* The wrinkle specification: handle_action taken one statement at a time  *)
(* on the floor of World0 without its enemies.  The segments with the      *)
(* glyph of the TimeReverseConsumable turn back time when digested, the    *)
(* others carry a                                                          *)
(* PetrifyConsumable.  perform() is one step; every pass of the while loop *)
(* is one step; the test of just_turned_back_time with the enemy phase or  *)
(* the reset, update_fov() and the return are the last step.               *)
(***************************************************************************)
MaxWrinkleTurns == 7

WrinkleInputs(w) ==
  { Input("move", d, NoItem, <<0, 0>>, 0) : d \in DIRECTIONS }
  \cup { Input("wait", <<0, 0>>, NoItem, <<0, 0>>, 0) }
  \cup { Input(IF Edible(w.item[w.chain[k]].char) = "TimeReverse" THEN "digest" ELSE "petrify",
               <<0, 0>>, w.chain[k], <<0, 0>>,
               IF Edible(w.item[w.chain[k]].char) = "TimeReverse" THEN n ELSE 0) :
           k \in 1 .. Len(w.chain), n \in RewindTurns }

InitWrinkle ==
  /\ world = [World0 EXCEPT !.enemy = [e \in EnemyIds |-> [Enemy0(e) EXCEPT !.on_map = FALSE]]]
  /\ InitCommon

\* action.perform(); Impossible returns False at once.
WrinklePerform ==
  /\ handler = "main"
  /\ turn_count < MaxWrinkleTurns
  /\ \E inp \in WrinkleInputs(world) :
     \E ch \in Draws(world, inp) :
     \E r \in { IF inp.kind = "petrify" THEN PetrifyActivate(world, item_factories)
                ELSE PerformInput(world, item_factories, snapshots, turn_count, inp, ch) } :
       /\ ~r.error
       /\ DrawsMatter(world, r.w, ch)
       /\ ch.intents = [e \in EnemyIds |-> Waiting]
       /\ world' = r.w
       /\ item_factories' = r.tbl
       /\ just_turned_back_time' = (just_turned_back_time \/ r.turned)
       /\ handler' = IF r.raised THEN "main" ELSE "performed"
       /\ outcome' = [op |-> inp.kind, actor |-> <<"player", 0>>, raised |-> r.raised,
                      arg |-> IF r.turned THEN "rewind" ELSE "input"]
       /\ UNCHANGED <<turn_count, snapshots, opcount, replay, forecast, enemy_phase>>

\* One pass of while PetrifiedSnake and alive: handle_enemy_turns()
WrinkleAutoAdvance ==
  /\ handler = "performed"
  /\ AutoAdvancing(world)
  /\ \E ch \in Draws(world, Input("wait", <<0, 0>>, NoItem, <<0, 0>>, 0)) :
     \E st \in { handle_enemy_turns([w |-> world, turn |-> turn_count, snaps |-> snapshots,
                                      calls |-> 0, last |-> NoPhase], item_factories, ch) } :
       /\ DrawsMatter(world, st.w, ch)
       /\ world' = st.w
       /\ turn_count' = st.turn
       /\ snapshots' = st.snaps
       /\ enemy_phase' = st.last
  /\ outcome' = [op |-> "auto_advance", actor |-> <<"none", 0>>, raised |-> FALSE, arg |-> ""]
  /\ UNCHANGED <<item_factories, just_turned_back_time, handler, opcount, replay, forecast>>

\* if not just_turned_back_time: handle_enemy_turns()
\* else: just_turned_back_time = False; then update_fov() and return True.
WrinkleReturn ==
  /\ handler = "performed"
  /\ ~AutoAdvancing(world)
  /\ \E ch \in Draws(world, Input("wait", <<0, 0>>, NoItem, <<0, 0>>, 0)) :
     \E st \in { IF ~just_turned_back_time
                 THEN handle_enemy_turns([w |-> world, turn |-> turn_count, snaps |-> snapshots,
                                          calls |-> 0, last |-> NoPhase], item_factories, ch)
                 ELSE [w |-> world, turn |-> turn_count, snaps |-> snapshots,
                       calls |-> 0, last |-> NoPhase] } :
       /\ DrawsMatter(world, st.w, ch)
       /\ world' = update_fov(st.w)
       /\ turn_count' = st.turn
       /\ snapshots' = st.snaps
       /\ enemy_phase' = st.last
       /\ handler' = IF st.w.alive THEN "main" ELSE "game_over"
  /\ just_turned_back_time' = FALSE
  /\ outcome' = [op |-> "return", actor |-> <<"none", 0>>, raised |-> FALSE,
                 arg |-> IF just_turned_back_time THEN "skipped" ELSE "phase"]
  /\ UNCHANGED <<item_factories, opcount, replay, forecast>>

NextWrinkle == WrinklePerform \/ WrinkleAutoAdvance \/ WrinkleReturn

SpecWrinkle == InitWrinkle /\ [][NextWrinkle]_vars

\* C38: the action that triggered a rewind is not followed by an enemy
\* phase and leaves the turn counter alone; the flag just_turned_back_time
\* is false again when handle_action returns; one enemy phase is skipped
\* per rewind.  From the rewind to the return of handle_action nothing runs
\* but the reset of the flag.
C38_RewindSkipsEnemyPhase ==
  [][/\ outcome'.arg = "rewind" => (just_turned_back_time' /\ turn_count' = turn_count)
     /\ just_turned_back_time =>
          /\ outcome'.op = "return" /\ outcome'.arg = "skipped"
          /\ turn_count' = turn_count /\ snapshots' = snapshots
          /\ ~just_turned_back_time'
     /\ handler' # "performed" => ~just_turned_back_time']_vars

\* The flag is false whenever handle_action has returned, and turn_back_time
\* itself leaves the turn counter alone.
FlagFalseOnReturn ==
  [][/\ outcome'.arg = "rewind" => (just_turned_back_time' /\ turn_count' = turn_count)
     /\ handler' # "performed" => ~just_turned_back_time']_vars

\* Exactly the enemy phase of the rewinding action itself is skipped: the
\* last statement of handle_action runs no enemy phase when the flag is set,
\* and one when it is not.
OnePhaseSkippedPerRewind ==
  [][outcome'.op = "return" =>
       IF just_turned_back_time
       THEN turn_count' = turn_count /\ snapshots' = snapshots
       ELSE world.alive => turn_count' = turn_count + 1]_vars

\* When the restored player is not petrified, the rewind is followed by no
\* enemy phase.
NoPhaseAfterRewindUnlessPetrified ==
  [][(just_turned_back_time /\ ~AutoAdvancing(world)) =>
       /\ outcome'.op = "return" /\ outcome'.arg = "skipped"
       /\ turn_count' = turn_count /\ snapshots' = snapshots
       /\ ~just_turned_back_time']_vars

(***************************************************************************)
(* The swallowing specification: on the floor of World0 the player moves   *)
(* and picks up, the enemies move, and a segment carrying a                *)
(* VacuumConsumable is digested (ItemAction.perform calls activate) or     *)
(* activated through start_activation.                                     *)
(***************************************************************************)
\* [i for i in game_map.items if visible[i.x, i.y] and i not in inventory.items]
to_swallow(w) ==
  { i \in DOMAIN w.item : w.item[i].on_map /\ w.item[i].xy \in w.visible /\ ~InChain(w, i) }

\* for i in to_swallow: i.place(*action.entity.xy)
Swallowed(w) ==
  [w EXCEPT !.item = [i \in DOMAIN w.item |->
                        IF i \in to_swallow(w) THEN [w.item[i] EXCEPT !.xy = w.head]
                        ELSE w.item[i]]]

\* VacuumConsumable.activate: every visible item that is not in the chain is
\* placed on the head's tile, and PickupAction takes what lies there; ord is
\* the order in which its loop meets the items of the tile.
VacuumActivate(w, tbl, ord) ==
  IF to_swallow(w) = {} THEN Res(w, tbl, FALSE, FALSE)
  ELSE Res(PickupAction(Swallowed(w), ord), tbl, FALSE, FALSE)

\* Consumable.start_activation of a VacuumConsumable: consume, activate,
\* identify, snake.
VacuumStartActivation(w, tbl, i, ord) ==
  LET w1 == item_consume(w, i)
      r == VacuumActivate(w1, tbl, ord)
  IN Res(IF InChain(w, i) THEN snake(r.w, w.item[i].xy, IndexOf(w, i)) ELSE r.w,
         set_identified(w, tbl, i, TRUE), FALSE, FALSE)

InitSwallow == world = World0 /\ InitCommon

SwallowPlayerMove ==
  \E d \in DIRECTIONS :
    /\ world.alive
    /\ \E ord \in (IF MovementAllowed(world, Plus(world.head, d))
                   THEN Orders(ItemsAt(world, Plus(world.head, d))) ELSE { <<>> }) :
       \E r \in { PlayerMovementAction(world, item_factories, d, ord,
                                       [e \in EnemyIds |-> CanonGlyph]) } :
         /\ world' = IF r.raised THEN r.w ELSE update_fov(r.w)
         /\ item_factories' = r.tbl
         /\ ChainFrame("move", <<"player", 0>>, r.raised, "")

SwallowEnemyMove ==
  \E e \in EnemyIds, d \in DIRECTIONS :
    /\ world.alive /\ world.enemy[e].on_map
    /\ \E r \in { EnemyMovementAction(world, item_factories, e, d) } :
         /\ world' = r.w
         /\ item_factories' = r.tbl
         /\ ChainFrame("move", <<"enemy", e>>, r.raised, "")

\* ItemAction.perform on a segment whose edible is a VacuumConsumable.
SwallowDigestVacuum ==
  \E k \in 1 .. Len(world.chain) :
    /\ world.alive
    /\ \E ord \in Orders(ItemsAt(Swallowed(world), world.head)) :
       \E r \in { VacuumActivate(world, item_factories, ord) } :
         /\ world' = update_fov(r.w)
         /\ item_factories' = r.tbl
    /\ ChainFrame("digest", <<"player", 0>>, FALSE, "vacuum")

\* start_activation of a segment's VacuumConsumable.
SwallowStartVacuum ==
  \E k \in 1 .. Len(world.chain) :
    /\ world.alive
    /\ \E ord \in Orders(ItemsAt(Swallowed(item_consume(world, world.chain[k])), world.head)) :
       \E r \in { VacuumStartActivation(world, item_factories, world.chain[k], ord) } :
         /\ world' = update_fov(r.w)
         /\ item_factories' = r.tbl
    /\ ChainFrame("start_activation", <<"player", 0>>, FALSE, "vacuum")

NextSwallow ==
  SwallowPlayerMove \/ SwallowEnemyMove \/ SwallowDigestVacuum \/ SwallowStartVacuum

SpecSwallow == InitSwallow /\ [][NextSwallow]_vars

\* No item is met twice in a sequence.
NoItemTwice(items) ==
  \A a \in 1 .. Len(items), b \in 1 .. Len(items) : a # b => items[a] # items[b]

\* C39: no item occurs more than once in the body chain, whatever was moved,
\* picked up on the way or picked up by an effect.
C39_NoItemTwiceInChain == NoItemTwice(world.chain)

\* Moves with their automatic pickups keep the chain free of repetitions.
MovesKeepChainFreeOfRepetitions ==
  [][(outcome'.op = "move" /\ NoItemTwice(world.chain)) => NoItemTwice(world'.chain)]_vars

=============================================================================
